---- MODULE Spec2Model ----
(***************************************************************************)
(* Scoring and ranking engine of the resume shortlisting backend           *)
(* (backend/app/services/evaluation_service.py).                           *)
(*                                                                         *)
(* Numbers that are Python floats in the source are exact rationals        *)
(* <<numerator, denominator>> here (denominator > 0, lowest terms).        *)
(* Optional values are <<>> (None / key absent) or <<v>>.                  *)
(* Texts are strings; searches and tokenisation work on their characters.  *)
(***************************************************************************)
EXTENDS Integers, Sequences, FiniteSets, TLC

VARIABLES
    resume_text,            \* calculate_ranking_breakdown argument
    resume_skills,          \* calculate_ranking_breakdown argument (extractor output)
    job_description,        \* calculate_ranking_breakdown argument
    match_score,            \* calculate_ranking_breakdown argument (baseline)
    pc,                     \* position inside calculate_ranking_breakdown
    experience_score,       \* local of calculate_ranking_breakdown
    education_score,        \* local of calculate_ranking_breakdown
    skills_quality_score,   \* local of calculate_ranking_breakdown
    keyword_density_score,  \* local of calculate_ranking_breakdown
    composite_score,        \* local of calculate_ranking_breakdown (before rounding)
    ranking_breakdown,      \* the RankingBreakdown returned, if any
    exception,              \* the exception that left calculate_ranking_breakdown, if any
    evaluations,            \* rows of the evaluations table of one job
    list_pc,                \* position inside list_evaluations
    filters,                \* list_evaluations argument
    delivered,              \* result.data of the ordered query
    returned,               \* EvaluationListResponse.evaluations
    resumes,                \* rows of the resumes table, by id
    audit_logs,             \* rows of the audit_logs table
    next_id,                \* next value of the id sequence of the evaluations table
    calls,                  \* the calls of evaluate_resume / re_evaluate_resume, by caller
    started,                \* number of calls made so far
    batch                   \* the call of evaluate_all_resumes and its locals

engine_vars == <<resume_text, resume_skills, job_description, match_score, pc,
                 experience_score, education_score, skills_quality_score,
                 keyword_density_score, composite_score, ranking_breakdown, exception>>

list_vars == <<evaluations, list_pc, filters, delivered, returned>>

store_vars == <<resumes, audit_logs, next_id, calls, started, batch>>

vars == <<engine_vars, list_vars, store_vars>>

None == <<>>

Some(v) == <<v>>

-----------------------------------------------------------------------------
(* Exact arithmetic standing for the float arithmetic of the source.        *)

Abs(n) == IF n < 0 THEN -n ELSE n

RECURSIVE GCD(_, _)
GCD(a, b) == IF b = 0 THEN a ELSE GCD(b, a % b)

RNorm(a) ==
    LET g == GCD(Abs(a[1]), a[2])
    IN  <<a[1] \div g, a[2] \div g>>

Rat(n) == <<n, 1>>

RAdd(a, b) == RNorm(<<a[1] * b[2] + b[1] * a[2], a[2] * b[2]>>)

RSub(a, b) == RNorm(<<a[1] * b[2] - b[1] * a[2], a[2] * b[2]>>)

RMul(a, b) == RNorm(<<a[1] * b[1], a[2] * b[2]>>)

RLe(a, b) == a[1] * b[2] <= b[1] * a[2]

RLt(a, b) == a[1] * b[2] < b[1] * a[2]

RMin(a, b) == IF RLe(a, b) THEN a ELSE b

RMax(a, b) == IF RLe(a, b) THEN b ELSE a

\* round(x, 2): nearest multiple of 1/100, an exact tie going to the even one.
Round2(a) ==
    LET n == 100 * a[1]
        q == n \div a[2]
        r == n - q * a[2]
    IN  IF 2 * r > a[2] \/ (2 * r = a[2] /\ q % 2 = 1)
        THEN RNorm(<<q + 1, 100>>)
        ELSE RNorm(<<q, 100>>)

-----------------------------------------------------------------------------
(* Text primitives: str.lower, the `in` test, and the pieces of the         *)
(* regular expressions of the scorers.                                      *)

Char(s, i) == IF i >= 1 /\ i <= Len(s) THEN SubSeq(s, i, i) ELSE ""

UpperCase == "ABCDEFGHIJKLMNOPQRSTUVWXYZ"

LowerCase == "abcdefghijklmnopqrstuvwxyz"

DigitChars == "0123456789"

LowerChar(c) ==
    IF \E k \in 1..Len(UpperCase) : Char(UpperCase, k) = c
    THEN Char(LowerCase, CHOOSE k \in 1..Len(UpperCase) : Char(UpperCase, k) = c)
    ELSE c

\* str.lower, character by character (the halves are lowered separately)
RECURSIVE Lower(_)
Lower(s) ==
    IF s = "" THEN ""
    ELSE IF Len(s) = 1 THEN LowerChar(Char(s, 1))
    ELSE Lower(SubSeq(s, 1, Len(s) \div 2)) \o Lower(SubSeq(s, Len(s) \div 2 + 1, Len(s)))

IsDigit(c) == \E k \in 1..Len(DigitChars) : Char(DigitChars, k) = c

DigitValue(c) == (CHOOSE k \in 1..Len(DigitChars) : Char(DigitChars, k) = c) - 1

IsSpace(c) == c \in {" ", "\t", "\n", "\r", "\f"}

IsWordChar(c) ==
    \/ IsDigit(c)
    \/ c = "_"
    \/ \E k \in 1..Len(LowerCase) : Char(LowerCase, k) = c \/ Char(UpperCase, k) = c

\* `pat in s`
Contains(s, pat) ==
    \E i \in 1..(Len(s) - Len(pat) + 1) : SubSeq(s, i, i + Len(pat) - 1) = pat

StartsAt(s, i, lit) ==
    /\ i >= 1
    /\ i + Len(lit) - 1 <= Len(s)
    /\ SubSeq(s, i, i + Len(lit) - 1) = lit

\* `\d+` from i, greedy: the index after the run of digits starting at i.
DigitsEnd(s, i) ==
    CHOOSE j \in i..(Len(s) + 1) :
        /\ \A k \in i..(j - 1) : IsDigit(Char(s, k))
        /\ ~IsDigit(Char(s, j))

\* `\s*` from i, greedy.
SpacesEnd(s, i) ==
    CHOOSE j \in i..(Len(s) + 1) :
        /\ \A k \in i..(j - 1) : IsSpace(Char(s, k))
        /\ ~IsSpace(Char(s, j))

\* `x?` from i, greedy.
Optional(s, i, lit) == IF StartsAt(s, i, lit) THEN i + Len(lit) ELSE i

\* int(group)
RECURSIVE ParseInt(_)
ParseInt(s) ==
    IF s = "" THEN 0
    ELSE 10 * ParseInt(SubSeq(s, 1, Len(s) - 1)) + DigitValue(Char(s, Len(s)))

SetMin(S) == CHOOSE x \in S : \A y \in S : x <= y

-----------------------------------------------------------------------------
(* _calculate_experience_score                                              *)

\* `\s*years?`
YearsTail(s, i) == StartsAt(s, SpacesEnd(s, i), "year")

\* `\s*years?\s*(?:of\s*)?experience`
YearsExperienceTail(s, i) ==
    LET a == SpacesEnd(s, i)
        b == SpacesEnd(s, Optional(s, a + 4, "s"))
        c == IF StartsAt(s, b, "of") THEN SpacesEnd(s, b + 2) ELSE b
    IN  StartsAt(s, a, "year") /\ StartsAt(s, c, "experience")

\* r'(\d+)\+?\s*years?\s*(?:of\s*)?experience' matching from index i
PlusYearsAt(s, i) ==
    /\ IsDigit(Char(s, i))
    /\ YearsExperienceTail(s, Optional(s, DigitsEnd(s, i), "+"))

\* start of group 2 of r'(\d+)\s*-\s*(\d+)\s*years?\s*(?:of\s*)?experience' from i
RangeUpperStart(s, i) == SpacesEnd(s, SpacesEnd(s, DigitsEnd(s, i)) + 1)

RangeYearsAt(s, i) ==
    /\ IsDigit(Char(s, i))
    /\ Char(s, SpacesEnd(s, DigitsEnd(s, i))) = "-"
    /\ IsDigit(Char(s, RangeUpperStart(s, i)))
    /\ YearsExperienceTail(s, DigitsEnd(s, RangeUpperStart(s, i)))

\* start of group 1 of r'minimum\s*(\d+)\s*years?' from i
MinimumStart(s, i) == SpacesEnd(s, i + Len("minimum"))

MinimumYearsAt(s, i) ==
    /\ StartsAt(s, i, "minimum")
    /\ IsDigit(Char(s, MinimumStart(s, i)))
    /\ YearsTail(s, DigitsEnd(s, MinimumStart(s, i)))

\* start of group 1 of r'at\s*least\s*(\d+)\s*years?' from i
AtLeastStart(s, i) == SpacesEnd(s, SpacesEnd(s, i + Len("at")) + Len("least"))

AtLeastYearsAt(s, i) ==
    /\ StartsAt(s, i, "at")
    /\ StartsAt(s, SpacesEnd(s, i + Len("at")), "least")
    /\ IsDigit(Char(s, AtLeastStart(s, i)))
    /\ YearsTail(s, DigitsEnd(s, AtLeastStart(s, i)))

\* The maximal digit run starting at i, as an integer.
IntAt(s, i) == ParseInt(SubSeq(s, i, DigitsEnd(s, i) - 1))

\* re.search of one entry of exp_patterns: None, or the integer the loop body
\* takes from the leftmost match (group 2 of the range pattern, else group 1).
SearchExpPattern(k, s) ==
    LET M == {i \in 1..Len(s) :
                CASE k = 1 -> PlusYearsAt(s, i)
                  [] k = 2 -> RangeYearsAt(s, i)
                  [] k = 3 -> MinimumYearsAt(s, i)
                  [] OTHER -> AtLeastYearsAt(s, i)}
        i0 == SetMin(M)
    IN  IF M = {} THEN None
        ELSE CASE k = 1 -> Some(IntAt(s, i0))
               [] k = 2 -> Some(IntAt(s, RangeUpperStart(s, i0)))
               [] k = 3 -> Some(IntAt(s, MinimumStart(s, i0)))
               [] OTHER -> Some(IntAt(s, AtLeastStart(s, i0)))

NumExpPatterns == 4

\* The loop over exp_patterns: the first pattern that matches decides.
RequiredExp(jd) ==
    LET s == Lower(jd)
        K == {k \in 1..NumExpPatterns : SearchExpPattern(k, s) # None}
    IN  IF K = {} THEN None ELSE SearchExpPattern(SetMin(K), s)

\* resume_skills.get('experience_years', 0): a missing key and None both
\* fail the truth test that follows, like 0.
ExperienceYears(rs) ==
    IF rs.experience_years = None THEN Rat(0) ELSE rs.experience_years[1]

\* `if not required_exp` branch: score by general experience
\* variant: the bucket bounds taken as strict
GeneralExperienceScoreStrict(years) ==
    IF RLt(Rat(10), years) THEN Rat(100)
    ELSE IF RLt(Rat(5), years) THEN Rat(85)
    ELSE IF RLt(Rat(3), years) THEN Rat(70)
    ELSE IF RLt(Rat(1), years) THEN Rat(50)
    ELSE Rat(25)

GeneralExperienceScore(years) ==
    IF RLe(Rat(10), years) THEN Rat(100)
    ELSE IF RLe(Rat(5), years) THEN Rat(85)
    ELSE IF RLe(Rat(3), years) THEN Rat(70)
    ELSE IF RLe(Rat(1), years) THEN Rat(50)
    ELSE Rat(25)

\* variant: the bonus capped at 10 instead of 20
ExcessBonusCappedAt10(excess) == RMin(RMul(excess, Rat(2)), Rat(10))

\* bonus = min(excess * 2, 20)
ExcessBonus(excess) == RMin(RMul(excess, Rat(2)), Rat(20))

\* variant: the 70 and 50 bands exchanged
RequirementScoreBandsSwapped(years, required_exp) ==
    IF RLe(Rat(required_exp), years)
    THEN RMin(Rat(100), RAdd(Rat(80), RMin(RMul(RSub(years, Rat(required_exp)), Rat(2)), Rat(20))))
    ELSE IF RLe(RMul(Rat(required_exp), <<8, 10>>), years) THEN Rat(50)
    ELSE IF RLe(RMul(Rat(required_exp), <<6, 10>>), years) THEN Rat(70)
    ELSE IF RLe(RMul(Rat(required_exp), <<4, 10>>), years) THEN Rat(30)
    ELSE Rat(10)

\* score against a stated requirement
RequirementScore(years, required_exp) ==
    IF RLe(Rat(required_exp), years)
    THEN RMin(Rat(100), RAdd(Rat(80), ExcessBonus(RSub(years, Rat(required_exp)))))
    ELSE IF RLe(RMul(Rat(required_exp), <<8, 10>>), years) THEN Rat(70)
    ELSE IF RLe(RMul(Rat(required_exp), <<6, 10>>), years) THEN Rat(50)
    ELSE IF RLe(RMul(Rat(required_exp), <<4, 10>>), years) THEN Rat(30)
    ELSE Rat(10)

\* variant: 0 years are scored like any other number of years
NoExperienceIgnored(years) == FALSE

\* `if not experience_years`
NoExperience(years) == years[1] = 0

\* `if not required_exp`
NoRequirement(required_exp) == required_exp = None \/ required_exp[1] = 0

_calculate_experience_score(rs, jd) ==
    LET experience_years == ExperienceYears(rs)
        required_exp == RequiredExp(jd)
    IN  IF NoExperience(experience_years) THEN Rat(0)
        ELSE IF NoRequirement(required_exp) THEN GeneralExperienceScore(experience_years)
        ELSE RequirementScore(experience_years, required_exp[1])

-----------------------------------------------------------------------------
(* _calculate_education_score and its helpers                               *)

\* What a call produces: a value, or the exception that leaves it.
Returns(v) == [exc |-> "none", val |-> v]

Raises(e) == [exc |-> e, val |-> Rat(0)]

\* education_hierarchy, in the insertion order of the dict
education_hierarchy ==
    << [level |-> "phd",         score |-> 100],
       [level |-> "doctorate",   score |-> 100],
       [level |-> "master",      score |-> 85],
       [level |-> "m\\.?s\\.?",  score |-> 85],
       [level |-> "mba",         score |-> 85],
       [level |-> "bachelor",    score |-> 70],
       [level |-> "b\\.?s\\.?",  score |-> 70],
       [level |-> "b\\.?a\\.?",  score |-> 65],
       [level |-> "associate",   score |-> 50],
       [level |-> "diploma",     score |-> 40],
       [level |-> "certificate", score |-> 30] >>

\* re.search(r'x\.?y\.?', s)
OptionalDots(s, x, y) == Contains(s, x \o y) \/ Contains(s, x \o "." \o y)

\* re.search(r'word.*degree', s): `.` does not match a line break
ThenDegree(s, word) ==
    \E i \in 1..Len(s) : \E j \in (i + Len(word))..Len(s) :
        /\ StartsAt(s, i, word)
        /\ StartsAt(s, j, "degree")
        /\ \A k \in (i + Len(word))..(j - 1) : Char(s, k) # "\n"

\* re.search(level, education_str) for a key of education_hierarchy
LevelSearch(level, s) ==
    CASE level = "m\\.?s\\.?" -> OptionalDots(s, "m", "s")
      [] level = "b\\.?s\\.?" -> OptionalDots(s, "b", "s")
      [] level = "b\\.?a\\.?" -> OptionalDots(s, "b", "a")
      [] OTHER -> Contains(s, level)

\* The loop that finds the candidate's level: index of the first key of the
\* hierarchy found in the education string, 0 when none is.
CandidateLevelIndex(education_str) ==
    LET K == {k \in DOMAIN education_hierarchy :
                LevelSearch(education_hierarchy[k].level, education_str)}
    IN  IF K = {} THEN 0 ELSE SetMin(K)

degree_patterns == <<"phd", "master", "bachelor", "associate", "diploma", "certificate">>

\* re.search of the k-th entry of degree_patterns
DegreePatternSearch(k, s) ==
    CASE k = 1 -> Contains(s, "phd") \/ Contains(s, "doctorate") \/ Contains(s, "doctoral")
      [] k = 2 -> \/ ThenDegree(s, "master")
                  \/ OptionalDots(s, "m", "s")
                  \/ Contains(s, "master's")
                  \/ Contains(s, "mba")
      [] k = 3 -> \/ ThenDegree(s, "bachelor")
                  \/ OptionalDots(s, "b", "s")
                  \/ OptionalDots(s, "b", "a")
                  \/ Contains(s, "bachelor's")
      [] k = 4 -> ThenDegree(s, "associate") \/ Contains(s, "associate's")
      [] k = 5 -> Contains(s, "diploma")
      [] OTHER -> Contains(s, "certificate") \/ Contains(s, "certification")

_extract_required_degree(jd) ==
    LET job_desc_lower == Lower(jd)
        K == {k \in DOMAIN degree_patterns : DegreePatternSearch(k, job_desc_lower)}
    IN  IF K = {} THEN None ELSE Some(degree_patterns[SetMin(K)])

\* levels.index(level), 0 standing for ValueError
LevelIndex(level) ==
    LET K == {k \in DOMAIN education_hierarchy : education_hierarchy[k].level = level}
    IN  IF K = {} THEN 0 ELSE SetMin(K)

\* variant: the bonus without its cap of 20
HigherDegreeBonusUncapped(excess_levels) == excess_levels * 10

\* bonus = min(excess_levels * 10, 20)
HigherDegreeBonus(excess_levels) ==
    IF excess_levels * 10 <= 20 THEN excess_levels * 10 ELSE 20

\* penalty = deficit_levels * 15
LowerDegreePenalty(deficit_levels) == deficit_levels * 15

_calculate_degree_match_score(candidate_level, required_level) ==
    LET candidate_idx == LevelIndex(candidate_level)
        required_idx == LevelIndex(required_level)
        own == IF candidate_idx = 0 THEN 0 ELSE education_hierarchy[candidate_idx].score
    IN  IF candidate_idx = 0 \/ required_idx = 0 THEN Rat(own)
        ELSE IF candidate_level = required_level THEN Rat(own)
        ELSE IF candidate_idx < required_idx
        THEN RMin(Rat(100), Rat(education_hierarchy[required_idx].score
                                  + HigherDegreeBonus(required_idx - candidate_idx)))
        ELSE RMax(Rat(0), Rat(own - LowerDegreePenalty(candidate_idx - required_idx)))

tech_fields ==
    {"computer science", "software engineering", "information technology",
     "data science", "computer engineering", "software development",
     "artificial intelligence", "machine learning", "cybersecurity", "cloud computing"}

business_fields == {"business", "management", "finance", "marketing", "economics", "accounting"}

engineering_fields == {"engineering", "mechanical", "electrical", "civil", "chemical"}

\* any(x in s for x in words)
AnyIn(words, s) == \E w \in words : Contains(s, w)

\* any(eng in job_desc_lower for tech in ['engineer', 'engineering', 'technical']):
\* the name `eng` is bound nowhere, so evaluating the first element raises NameError.
EngineeringKeywordTest(job_desc_lower) == Raises("NameError")

\* variant: a generic IT keyword counts like a technical keyword
TechFieldBonusFlat(job_desc_lower) ==
    IF AnyIn({"software", "technical", "developer", "engineer", "data", "ai",
              "machine learning", "it", "technology", "system"}, job_desc_lower)
    THEN Returns(Rat(15))
    ELSE Returns(Rat(0))

\* the branch of a technical field: 15, elif 10, and the final return 0
TechFieldBonus(job_desc_lower) ==
    IF AnyIn({"software", "technical", "developer", "engineer", "data", "ai",
              "machine learning"}, job_desc_lower)
    THEN Returns(Rat(15))
    ELSE IF AnyIn({"it", "technology", "system"}, job_desc_lower)
    THEN Returns(Rat(10))
    ELSE Returns(Rat(0))

_calculate_field_relevance_bonus(education_str, jd) ==
    LET job_desc_lower == Lower(jd)
    IN  IF AnyIn(tech_fields, education_str)
        THEN TechFieldBonus(job_desc_lower)
        ELSE IF AnyIn(business_fields, education_str)
        THEN IF AnyIn({"business", "management", "analyst", "strategy"}, job_desc_lower)
             THEN Returns(Rat(12))
             ELSE IF AnyIn({"finance", "marketing"}, job_desc_lower)
             THEN Returns(Rat(8))
             ELSE Returns(Rat(0))
        ELSE IF AnyIn(engineering_fields, education_str)
        THEN LET found == EngineeringKeywordTest(job_desc_lower)
             IN  IF found.exc # "none" THEN found
                 ELSE IF found.val THEN Returns(Rat(12))
                 ELSE Returns(Rat(0))
        ELSE Returns(Rat(0))

\* variant: the sum without the cap at 100
UncappedEducationScore(score, relevance_bonus) == RAdd(score, relevance_bonus)

\* return min(100.0, score + relevance_bonus)
CappedEducationScore(score, relevance_bonus) == RMin(Rat(100), RAdd(score, relevance_bonus))

\* variant: without a level the field bonus is still looked up
NoLevelScoreWithFieldBonus(education_str, jd) ==
    _calculate_field_relevance_bonus(education_str, jd)

\* if not candidate_level: return 0.0
NoLevelScore(education_str, jd) == Returns(Rat(0))

_calculate_education_score(rs, jd) ==
    IF rs.education = None \/ rs.education[1] = "" THEN Returns(Rat(0))
    ELSE LET education_str == Lower(rs.education[1])
             required_degree == _extract_required_degree(jd)
             candidate_idx == CandidateLevelIndex(education_str)
         IN  IF candidate_idx = 0 THEN NoLevelScore(education_str, jd)
             ELSE LET candidate_level == education_hierarchy[candidate_idx].level
                      score == IF required_degree # None
                               THEN _calculate_degree_match_score(candidate_level,
                                                                  required_degree[1])
                               ELSE Rat(education_hierarchy[candidate_idx].score)
                      relevance_bonus == _calculate_field_relevance_bonus(education_str, jd)
                  IN  IF relevance_bonus.exc # "none" THEN relevance_bonus
                      ELSE Returns(CappedEducationScore(score, relevance_bonus.val))

-----------------------------------------------------------------------------
(* _calculate_skills_quality_score                                          *)

high_value_skills ==
    {"machine learning", "artificial intelligence", "deep learning", "neural networks",
     "cloud architecture", "devops", "kubernetes", "docker", "microservices",
     "blockchain", "cybersecurity", "data engineering", "big data",
     "react", "angular", "vue.js", "node.js", "python", "java", "scala",
     "aws", "azure", "gcp", "terraform", "ansible"}

\* sum(1 for skill in skills if any(hv in skill.lower() for hv in high_value_skills))
HighValueCount(skills) ==
    Cardinality({i \in DOMAIN skills : AnyIn(high_value_skills, Lower(skills[i]))})

\* variant: the bonus without its cap of 20
SkillCountBonusUncapped(n) == n * 2

\* skill_count_bonus = min(len(skills) * 2, 20)
SkillCountBonus(n) == IF n * 2 <= 20 THEN n * 2 ELSE 20

_calculate_skills_quality_score(rs, jd) ==
    IF rs.skills = None \/ rs.skills[1] = <<>> THEN Rat(0)
    ELSE LET skills == rs.skills[1]
             high_value_ratio == RNorm(<<HighValueCount(skills), Len(skills)>>)
             base_score == RMul(high_value_ratio, Rat(80))
         IN  RMin(Rat(100), RAdd(base_score, Rat(SkillCountBonus(Len(skills)))))

-----------------------------------------------------------------------------
(* Stable sorting (list.sort / sorted with a key)                           *)

\* Tuple comparison of keys whose components are rationals.
RECURSIVE LexLt(_, _)
LexLt(a, b) ==
    IF a = <<>> \/ b = <<>> THEN FALSE
    ELSE IF RLt(a[1], b[1]) THEN TRUE
    ELSE IF RLt(b[1], a[1]) THEN FALSE
    ELSE LexLt(Tail(a), Tail(b))

\* x goes before the first element whose key is greater, so after its equals.
InsertByKey(sorted, x) ==
    LET later == {i \in DOMAIN sorted : LexLt(x.key, sorted[i].key)}
        p == IF later = {} THEN Len(sorted) + 1 ELSE SetMin(later)
    IN  SubSeq(sorted, 1, p - 1) \o <<x>> \o SubSeq(sorted, p, Len(sorted))

\* items: a sequence of [key, val]; ascending by key, equal keys in input order.
RECURSIVE SortByKey(_)
SortByKey(items) ==
    IF items = <<>> THEN <<>>
    ELSE InsertByKey(SortByKey(SubSeq(items, 1, Len(items) - 1)), items[Len(items)])

-----------------------------------------------------------------------------
(* _calculate_keyword_density_score                                         *)

WordEnd(s, i) ==
    CHOOSE j \in i..(Len(s) + 1) :
        /\ \A k \in i..(j - 1) : IsWordChar(Char(s, k))
        /\ ~IsWordChar(Char(s, j))

\* the positions from i on where a word of s starts
WordStarts(s, i) ==
    {j \in i..Len(s) : IsWordChar(Char(s, j)) /\ (j = i \/ ~IsWordChar(Char(s, j - 1)))}

\* the words of s that start at the given positions, in the order of the positions
WordsAt(s, starts) ==
    [k \in 1..Cardinality(starts) |->
        LET j == CHOOSE x \in starts : Cardinality({y \in starts : y < x}) = k - 1
        IN  SubSeq(s, j, WordEnd(s, j) - 1)]

\* variant: a word counts only when a separator follows it
FindWordsTerminated(s, i) ==
    WordsAt(s, {j \in WordStarts(s, i) : WordEnd(s, j) <= Len(s)})

\* re.findall(r'\b\w+\b', s) from index i on
FindWords(s, i) == WordsAt(s, WordStarts(s, i))

stop_words ==
    {"the", "a", "an", "and", "or", "but", "in", "on", "at", "to", "for", "of", "with",
     "by", "is", "are", "was", "were", "be", "been", "have", "has", "had", "do", "does",
     "did", "will", "would", "could", "should", "may", "might", "can", "must"}

\* list.count
CountOf(words, w) == Cardinality({i \in DOMAIN words : words[i] = w})

\* keys of keyword_counts, in insertion order
RECURSIVE FirstSeen(_)
FirstSeen(words) ==
    IF words = <<>> THEN <<>>
    ELSE LET rest == FirstSeen(SubSeq(words, 1, Len(words) - 1))
             w == words[Len(words)]
         IN  IF \E i \in DOMAIN rest : rest[i] = w THEN rest ELSE Append(rest, w)

TopKeywordCount == 20

\* variant: every keyword kept, the cut at 20 left out
AllKeywords(jd) ==
    LET job_words == FindWords(Lower(jd), 1)
        keywords == SelectSeq(job_words, LAMBDA w : w \notin stop_words /\ Len(w) > 2)
        keys == FirstSeen(keywords)
        items == [i \in DOMAIN keys |->
                    [key |-> <<Rat(0 - CountOf(job_words, keys[i]))>>, val |-> keys[i]]]
        ranked == SortByKey(items)
    IN  [i \in DOMAIN ranked |-> ranked[i].val]

\* sorted(keyword_counts.items(), key=lambda x: x[1], reverse=True)[:20], the keywords
TopKeywords(jd) ==
    LET job_words == FindWords(Lower(jd), 1)
        keywords == SelectSeq(job_words, LAMBDA w : w \notin stop_words /\ Len(w) > 2)
        keys == FirstSeen(keywords)
        items == [i \in DOMAIN keys |->
                    [key |-> <<Rat(0 - CountOf(job_words, keys[i]))>>, val |-> keys[i]]]
        ranked == SortByKey(items)
    IN  [i \in 1..(IF Len(ranked) < TopKeywordCount THEN Len(ranked) ELSE TopKeywordCount)
            |-> ranked[i].val]

RECURSIVE SumSeq(_)
SumSeq(ns) == IF ns = <<>> THEN 0 ELSE ns[1] + SumSeq(Tail(ns))

\* the score of a density (matches per 1000 words)
DensityScore(density) ==
    IF RLe(Rat(50), density) THEN Rat(100)
    ELSE IF RLe(Rat(40), density) THEN Rat(85)
    ELSE IF RLe(Rat(30), density) THEN Rat(70)
    ELSE IF RLe(Rat(20), density) THEN Rat(55)
    ELSE IF RLe(Rat(10), density) THEN Rat(40)
    ELSE Rat(25)

_calculate_keyword_density_score(rt, jd) ==
    LET top_keywords == TopKeywords(jd)
        resume_words == FindWords(Lower(rt), 1)
        resume_word_count == Len(resume_words)
        keyword_matches == SumSeq([i \in DOMAIN top_keywords |->
                                      CountOf(resume_words, top_keywords[i])])
    IN  IF top_keywords = <<>> THEN Rat(0)
        ELSE IF resume_word_count = 0 THEN Rat(0)
        ELSE DensityScore(RMul(RNorm(<<keyword_matches, resume_word_count>>), Rat(1000)))

-----------------------------------------------------------------------------
(* calculate_ranking_breakdown                                              *)

\* Field(..., ge=0, le=100) of RankingBreakdown
ValidScore(x) == RLe(Rat(0), x) /\ RLe(x, Rat(100))

\* variant: skills quality weighted 0.10 instead of 0.05
WeightedSumSkillsTenth(m, e, d, s, k) ==
    RAdd(RAdd(RAdd(RAdd(RMul(m, <<70, 100>>), RMul(e, <<15, 100>>)),
                   RMul(d, <<10, 100>>)),
              RMul(s, <<10, 100>>)),
         RMul(k, <<5, 100>>))

\* match_score * 0.7 + experience_score * 0.15 + education_score * 0.10
\*   + skills_quality_score * 0.05 + keyword_density_score * 0.05
WeightedSum(m, e, d, s, k) ==
    RAdd(RAdd(RAdd(RAdd(RMul(m, <<70, 100>>), RMul(e, <<15, 100>>)),
                   RMul(d, <<10, 100>>)),
              RMul(s, <<5, 100>>)),
         RMul(k, <<5, 100>>))

\* RankingBreakdown(...): pydantic validates every field on construction
RankingBreakdown(e, d, s, k, c) ==
    IF ValidScore(e) /\ ValidScore(d) /\ ValidScore(s) /\ ValidScore(k) /\ ValidScore(c)
    THEN Returns([experience_score |-> e, education_score |-> d,
                  skills_quality_score |-> s, keyword_density_score |-> k,
                  composite_score |-> c])
    ELSE Raises("ValidationError")

\* line 29
ScoreExperience ==
    /\ pc = "experience"
    /\ experience_score' = Some(_calculate_experience_score(resume_skills, job_description))
    /\ pc' = "education"
    /\ UNCHANGED <<resume_text, resume_skills, job_description, match_score,
                   education_score, skills_quality_score, keyword_density_score,
                   composite_score, ranking_breakdown, exception, list_vars, store_vars>>

\* line 32; an exception raised inside the scorer leaves calculate_ranking_breakdown
ScoreEducation ==
    /\ pc = "education"
    /\ LET r == _calculate_education_score(resume_skills, job_description)
       IN  IF r.exc = "none"
           THEN /\ education_score' = Some(r.val)
                /\ pc' = "skills_quality"
                /\ UNCHANGED exception
           ELSE /\ exception' = r.exc
                /\ pc' = "raised"
                /\ UNCHANGED education_score
    /\ UNCHANGED <<resume_text, resume_skills, job_description, match_score,
                   experience_score, skills_quality_score, keyword_density_score,
                   composite_score, ranking_breakdown, list_vars, store_vars>>

\* line 35
ScoreSkillsQuality ==
    /\ pc = "skills_quality"
    /\ skills_quality_score' =
           Some(_calculate_skills_quality_score(resume_skills, job_description))
    /\ pc' = "keyword_density"
    /\ UNCHANGED <<resume_text, resume_skills, job_description, match_score,
                   experience_score, education_score, keyword_density_score,
                   composite_score, ranking_breakdown, exception, list_vars, store_vars>>

\* line 38
ScoreKeywordDensity ==
    /\ pc = "keyword_density"
    /\ keyword_density_score' =
           Some(_calculate_keyword_density_score(resume_text, job_description))
    /\ pc' = "composite"
    /\ UNCHANGED <<resume_text, resume_skills, job_description, match_score,
                   experience_score, education_score, skills_quality_score,
                   composite_score, ranking_breakdown, exception, list_vars, store_vars>>

\* lines 41-55: the weighted sum, then the RankingBreakdown is built and returned
ReturnBreakdown ==
    /\ pc = "composite"
    /\ LET c == WeightedSum(match_score, experience_score[1], education_score[1],
                            skills_quality_score[1], keyword_density_score[1])
           r == RankingBreakdown(experience_score[1], education_score[1],
                                 skills_quality_score[1], keyword_density_score[1],
                                 Round2(c))
       IN  /\ composite_score' = Some(c)
           /\ IF r.exc = "none"
              THEN /\ ranking_breakdown' = Some(r.val)
                   /\ pc' = "returned"
                   /\ UNCHANGED exception
              ELSE /\ exception' = r.exc
                   /\ pc' = "raised"
                   /\ UNCHANGED ranking_breakdown
    /\ UNCHANGED <<resume_text, resume_skills, job_description, match_score,
                   experience_score, education_score, skills_quality_score,
                   keyword_density_score, list_vars, store_vars>>

calculate_ranking_breakdown ==
    \/ ScoreExperience
    \/ ScoreEducation
    \/ ScoreSkillsQuality
    \/ ScoreKeywordDensity
    \/ ReturnBreakdown

-----------------------------------------------------------------------------
(* list_evaluations                                                         *)

\* variant: an entry without a breakdown ranked below a composite of 0
CompositeOrMinusOne(x) ==
    IF x.ranking_breakdown # None THEN x.ranking_breakdown[1].composite_score ELSE Rat(-1)

\* x.ranking_breakdown.composite_score if x.ranking_breakdown and
\*   x.ranking_breakdown.composite_score else 0
CompositeOrZero(x) ==
    IF x.ranking_breakdown # None /\ x.ranking_breakdown[1].composite_score # Rat(0)
    THEN x.ranking_breakdown[1].composite_score
    ELSE Rat(0)

\* x.experience_years if x.experience_years else 0
ExperienceOrZero(x) ==
    IF x.experience_years # None /\ x.experience_years[1] # Rat(0)
    THEN x.experience_years[1]
    ELSE Rat(0)

\* x.ranking_breakdown.education_score if x.ranking_breakdown and
\*   x.ranking_breakdown.education_score else 0
EducationOrZero(x) ==
    IF x.ranking_breakdown # None /\ x.ranking_breakdown[1].education_score # Rat(0)
    THEN x.ranking_breakdown[1].education_score
    ELSE Rat(0)

RNeg(a) == <<0 - a[1], a[2]>>

\* variant: the composite tie-break left ascending under desc
TiebreakKeyCompositeAscending(x, desc) ==
    IF desc
    THEN <<RNeg(x.match_score), CompositeOrZero(x), RNeg(ExperienceOrZero(x)),
           RNeg(EducationOrZero(x))>>
    ELSE <<x.match_score, CompositeOrZero(x), ExperienceOrZero(x), EducationOrZero(x)>>

\* variant: the tie-break keys left descending under asc
TiebreakKeyPrimaryOnly(x, desc) ==
    IF desc
    THEN <<RNeg(x.match_score), RNeg(CompositeOrZero(x)), RNeg(ExperienceOrZero(x)),
           RNeg(EducationOrZero(x))>>
    ELSE <<x.match_score, RNeg(CompositeOrZero(x)), RNeg(ExperienceOrZero(x)),
           RNeg(EducationOrZero(x))>>

\* the key of evaluations.sort: every component negated when desc
TiebreakKey(x, desc) ==
    IF desc
    THEN <<RNeg(x.match_score), RNeg(CompositeOrZero(x)), RNeg(ExperienceOrZero(x)),
           RNeg(EducationOrZero(x))>>
    ELSE <<x.match_score, CompositeOrZero(x), ExperienceOrZero(x), EducationOrZero(x)>>

\* variant: the rows left as the query delivered them
WithoutTiebreakers(rows, desc) == rows

\* evaluations.sort(key=lambda x: (...)) on the rows as delivered
SortWithTiebreakers(rows, desc) ==
    LET items == [i \in DOMAIN rows |-> [key |-> TiebreakKey(rows[i], desc), val |-> rows[i]]]
        sorted == SortByKey(items)
    IN  [i \in DOMAIN sorted |-> sorted[i].val]

\* .eq("status", ..), .gte/.lte("match_score", ..), .gte/.lte("experience_years", ..):
\* a comparison with a NULL column keeps the row out
QueryMatches(x, f) ==
    \/ f = None
    \/ /\ f[1].status = None \/ x.status = f[1].status[1]
       /\ f[1].min_score = None \/ RLe(f[1].min_score[1], x.match_score)
       /\ f[1].max_score = None \/ RLe(x.match_score, f[1].max_score[1])
       /\ \/ f[1].min_experience = None
          \/ (x.experience_years # None /\ RLe(f[1].min_experience[1], x.experience_years[1]))
       /\ \/ f[1].max_experience = None
          \/ (x.experience_years # None /\ RLe(x.experience_years[1], f[1].max_experience[1]))

\* the column the query orders by, and its direction
OrderField(f) == IF f = None THEN "match_score" ELSE f[1].sort_by

OrderDesc(f) == IF f = None THEN TRUE ELSE f[1].sort_order = "desc"

\* a before b in the store's ordering of `field`, ascending; NULL sorts as largest.
\* evaluated_at is stamped by the store on insertion, so it grows with the id.
ColumnLess(a, b, field) ==
    IF field = "match_score" THEN RLt(a.match_score, b.match_score)
    ELSE IF field = "evaluated_at" THEN a.id < b.id
    ELSE /\ a.experience_years # None
         /\ b.experience_years = None \/ RLt(a.experience_years[1], b.experience_years[1])

\* query.order(field, desc=desc).execute(): the matching rows in any order that
\* respects the ordering column; rows equal on it come in any relative order.
QueryResults(table, f) ==
    LET idx == SelectSeq([i \in DOMAIN table |-> i], LAMBDA i : QueryMatches(table[i], f))
        n == Len(idx)
        field == OrderField(f)
    IN  {[k \in 1..n |-> table[p[idx[k]]]] :
            p \in {q \in Permutations({idx[k] : k \in 1..n}) :
                     \A a, b \in 1..n : a < b =>
                         IF OrderDesc(f)
                         THEN ~ColumnLess(table[q[idx[a]]], table[q[idx[b]]], field)
                         ELSE ~ColumnLess(table[q[idx[b]]], table[q[idx[a]]], field)}}

\* any(keyword in skill.lower() for skill in (e.skills_extracted or []))
SkillsKeywordMatches(x, keyword) ==
    \E i \in DOMAIN x.skills_extracted : Contains(Lower(x.skills_extracted[i]), keyword)

\* e.education and keyword in e.education.lower()
EducationKeywordMatches(x, keyword) ==
    /\ x.education # None
    /\ x.education[1] # ""
    /\ Contains(Lower(x.education[1]), keyword)

\* variant: the kept entries come out in reverse
KeywordFilterReversed(rows, f) ==
    LET kept == SelectSeq(rows, LAMBDA x :
                    /\ (f # None /\ f[1].skills_keyword # None /\ f[1].skills_keyword[1] # "")
                           => SkillsKeywordMatches(x, Lower(f[1].skills_keyword[1]))
                    /\ (f # None /\ f[1].education_keyword # None
                                 /\ f[1].education_keyword[1] # "")
                           => EducationKeywordMatches(x, Lower(f[1].education_keyword[1])))
    IN  [i \in DOMAIN kept |-> kept[Len(kept) + 1 - i]]

\* lines 574-587: the keyword filters, applied to the sorted list
KeywordFilter(rows, f) ==
    LET bySkill == IF f # None /\ f[1].skills_keyword # None /\ f[1].skills_keyword[1] # ""
                   THEN SelectSeq(rows, LAMBDA x :
                            SkillsKeywordMatches(x, Lower(f[1].skills_keyword[1])))
                   ELSE rows
    IN  IF f # None /\ f[1].education_keyword # None /\ f[1].education_keyword[1] # ""
        THEN SelectSeq(bySkill, LAMBDA x :
                 EducationKeywordMatches(x, Lower(f[1].education_keyword[1])))
        ELSE bySkill

\* variant: the tiebreaker sort is applied whatever the sort field
OrderedEvaluationsAlwaysSorted(rows, f) ==
    SortWithTiebreakers(rows, OrderDesc(f))

\* lines 504-572: what the handler makes of the delivered rows before the keyword filters
OrderedEvaluations(rows, f) ==
    IF f = None THEN SortWithTiebreakers(rows, TRUE)
    ELSE IF f[1].sort_by = "match_score"
    THEN SortWithTiebreakers(rows, f[1].sort_order = "desc")
    ELSE rows

\* a breakdown as evaluate_resume stores it: the output of calculate_ranking_breakdown
StoredBreakdown(m, e, d, s, k) ==
    Some(RankingBreakdown(Rat(e), Rat(d), Rat(s), Rat(k),
                          Round2(WeightedSum(Rat(m), Rat(e), Rat(d), Rat(s), Rat(k)))).val)

EvaluationRow(m, years, breakdown, skills, education) ==
    [match_score |-> Rat(m),
     status |-> IF m >= 60 THEN "OK to Proceed" ELSE "Not OK",
     experience_years |-> years,
     ranking_breakdown |-> breakdown,
     skills_extracted |-> skills,
     education |-> education]

\* Rows an evaluations table can hold. Rows 1 to 4 have the same match score; 2, 3
\* and 4 also have the same composite score, 3 differs from 2 in experience and 4
\* in the education sub-score. Row 5 was stored without experience or breakdown,
\* row 6 with 0 in their places.
SampleRows ==
    << EvaluationRow(80, Some(Rat(5)), StoredBreakdown(80, 85, 70, 100, 100),
                     <<"Python", "SQL">>, Some("B.S. Computer Science")),
       EvaluationRow(80, Some(Rat(5)), StoredBreakdown(80, 85, 70, 100, 40),
                     <<"Python">>, Some("B.S. Computer Science")),
       EvaluationRow(80, Some(Rat(3)), StoredBreakdown(80, 70, 70, 100, 85),
                     <<"Excel">>, Some("MBA")),
       EvaluationRow(80, Some(Rat(5)), StoredBreakdown(80, 85, 40, 100, 100),
                     <<"Excel", "python">>, Some("Diploma")),
       EvaluationRow(0, None, None, <<>>, None),
       EvaluationRow(0, Some(Rat(0)), StoredBreakdown(0, 0, 0, 0, 0), <<>>, Some("")) >>

\* Most rows in the table.
MaxRows == 3

\* Tables of n rows: ids 1..n in insertion order, contents from SampleRows (tables
\* that differ only in which id holds which contents are the same up to renaming).
Tables(n) ==
    {[i \in 1..n |-> [id |-> i] @@ SampleRows[c[i]]] :
        c \in {d \in [1..n -> DOMAIN SampleRows] : \A i \in 1..(n - 1) : d[i] <= d[i + 1]}}

DefaultFilters ==
    [status |-> None, min_score |-> None, max_score |-> None,
     min_experience |-> None, max_experience |-> None,
     skills_keyword |-> None, education_keyword |-> None,
     sort_by |-> "match_score", sort_order |-> "desc"]

\* filters of list_evaluations: none, or an EvaluationFilterParams
SampleFilters ==
    {None,
     Some(DefaultFilters),
     Some([DefaultFilters EXCEPT !.sort_order = "asc"]),
     Some([DefaultFilters EXCEPT !.skills_keyword = Some("PYTHON")]),
     Some([DefaultFilters EXCEPT !.sort_order = "asc", !.education_keyword = Some("mba"),
                                 !.min_score = Some(Rat(75))]),
     Some([DefaultFilters EXCEPT !.sort_by = "evaluated_at"]),
     Some([DefaultFilters EXCEPT !.sort_by = "experience_years",
                                 !.status = Some("OK to Proceed")]),
     Some([DefaultFilters EXCEPT !.sort_by = "experience_years", !.sort_order = "asc",
                                 !.min_experience = Some(Rat(0)),
                                 !.max_experience = Some(Rat(5)),
                                 !.max_score = Some(Rat(80))])}

\* lines 489-512 / 539-540 / 553-554: the query is built and executed
QueryEvaluations ==
    /\ list_pc = "idle"
    /\ \E f \in SampleFilters :
          /\ filters' = f
          /\ delivered' \in QueryResults(evaluations, f)
    /\ list_pc' = "fetched"
    /\ UNCHANGED <<evaluations, returned, engine_vars, store_vars>>

\* lines 514-594: tiebreaker sort, keyword filters, response
BuildResponse ==
    /\ list_pc = "fetched"
    /\ returned' = KeywordFilter(OrderedEvaluations(delivered, filters), filters)
    /\ list_pc' = "done"
    /\ UNCHANGED <<evaluations, filters, delivered, engine_vars, store_vars>>

list_evaluations == QueryEvaluations \/ BuildResponse

-----------------------------------------------------------------------------
(* evaluate_resume and re_evaluate_resume                                   *)
(*                                                                          *)
(* The tables live in a database that every worker of the API reaches over  *)
(* the network, so calls of several callers run concurrently. A step of a   *)
(* call is what it does from one await to the next.                         *)

Callers == {"a", "b"}

\* the state of calculate_ranking_breakdown and list_evaluations
other_vars == <<engine_vars, list_pc, filters, delivered, returned>>

\* what no step of evaluate_resume or re_evaluate_resume touches: the above and
\* the locals of evaluate_all_resumes
outside_vars == <<other_vars, batch>>

\* The jobs table (no operation below writes it).
jobs == [j \in {"JOB-1"} |->
            [title |-> "Developer",
             description |-> "Python developer wanted, 3+ years of experience"]]

\* The resumes table: resume 1 belongs to a stored job, the job of resume 2 is
\* gone; no resume has id 3.
StoredResumes ==
    (1 :> [job_id |-> "JOB-1", candidate_name |-> "Unknown"])
    @@ (2 :> [job_id |-> "JOB-2", candidate_name |-> "Unknown"])

ResumeIds == {1, 2, 3}

\* The resumes table with a second resume of the stored job.
BatchResumes == StoredResumes @@ (3 :> [job_id |-> "JOB-1", candidate_name |-> "Unknown"])

\* extract_text(file_content, file_name) of the stored file of a resume
ResumeFileText(r) == "Python developer, 5 years of experience"

\* what extract_candidate_name may find
CandidateNames == {"Unknown", "Ada Lovelace"}

\* what extract_skills_from_resume may answer; the second profile makes
\* calculate_ranking_breakdown raise
SampleProfiles ==
    {[skills |-> Some(<<"Python">>), experience_years |-> Some(Rat(5)),
      education |-> Some("B.S. Computer Science")],
     [skills |-> Some(<<>>), experience_years |-> None,
      education |-> Some("Bachelor of Mechanical Engineering")]}

\* evaluation.get("match_score", 0) of evaluate_match
StoreMatchScores == {Rat(80)}

\* Most calls made in one behaviour.
MaxCalls == 3

\* lines 32-55 of calculate_ranking_breakdown, the four sub-scores being known
ScoredBreakdown(m, e, d, s, k) ==
    IF d.exc # "none" THEN Raises(d.exc)
    ELSE RankingBreakdown(e, d.val, s, k, Round2(WeightedSum(m, e, d.val, s, k)))

\* calculate_ranking_breakdown as a function of its arguments (lines 19-55)
RankingBreakdownFor(rt, rs, jd, m) ==
    ScoredBreakdown(m, _calculate_experience_score(rs, jd),
                    _calculate_education_score(rs, jd),
                    _calculate_skills_quality_score(rs, jd),
                    _calculate_keyword_density_score(rt, jd))

\* the outcome of calculate_ranking_breakdown for every evaluation of a stored
\* resume: the file's text, the profile and match score found, the job's posting
RankingBreakdowns ==
    [r \in {x \in DOMAIN BatchResumes : BatchResumes[x].job_id \in DOMAIN jobs} |->
        [profile \in SampleProfiles |->
            [m \in StoreMatchScores |->
                RankingBreakdownFor(ResumeFileText(r), profile,
                                    jobs[BatchResumes[r].job_id].description, m)]]]

\* no call in progress for a caller
IdleCall ==
    [op |-> "none", pc |-> "idle", resume_id |-> 0, since |-> 0, previous |-> <<>>,
     resume |-> None,
     candidate_name |-> None, resume_skills |-> None, match_score |-> None,
     result |-> None, exc |-> "none"]

\* the call of c is at the given position
At(c, position) == calls[c].pc = position

\* the call of c moves on, with the given changes of its locals
Goto(c, position, changes) ==
    calls' = [calls EXCEPT ![c] = [changes @@ calls[c] EXCEPT !.pc = position]]

\* the call of c ends; its locals are gone
Ended(c, position, result, exc) ==
    calls' = [calls EXCEPT ![c] =
                 [IdleCall EXCEPT !.op = calls[c].op, !.resume_id = calls[c].resume_id,
                                  !.since = calls[c].since,
                                  !.previous = calls[c].previous, !.pc = position,
                                  !.result = result, !.exc = exc]]

Raise(c, exc) == Ended(c, "raised", None, exc)

Return(c, row) == Ended(c, "returned", Some(row), "none")

\* client.table("evaluations").select("*").eq("resume_id", r)
EvaluationsOf(rows, r) == SelectSeq(rows, LAMBDA x : x.resume_id = r)

\* a caller calls evaluate_resume(r) or re_evaluate_resume(r); `since` remembers
\* the value of the id sequence and `previous` the stored evaluations of r at that
\* moment
Call(c, op, r) ==
    /\ calls[c].pc \in {"idle", "returned", "raised"}
    /\ started < MaxCalls
    /\ started' = started + 1
    /\ calls' = [calls EXCEPT ![c] =
                    [IdleCall EXCEPT !.op = op, !.resume_id = r, !.since = next_id,
                                     !.previous = EvaluationsOf(evaluations, r),
                                     !.pc = IF op = "re_evaluate_resume"
                                            THEN "delete" ELSE "get_resume"]]
    /\ UNCHANGED <<evaluations, resumes, audit_logs, next_id, outside_vars>>

\* re_evaluate_resume line 639: the evaluations of the resume are deleted
DeleteExisting(c) ==
    /\ At(c, "delete")
    /\ evaluations' = SelectSeq(evaluations, LAMBDA x : x.resume_id # calls[c].resume_id)
    /\ Goto(c, "get_resume", <<>>)
    /\ UNCHANGED <<resumes, audit_logs, next_id, started, outside_vars>>

\* lines 334-336
GetResume(c) ==
    /\ At(c, "get_resume")
    /\ IF calls[c].resume_id \in DOMAIN resumes
       THEN Goto(c, "get_job", [resume |-> Some(resumes[calls[c].resume_id])])
       ELSE Raise(c, "ValueError")
    /\ UNCHANGED <<evaluations, resumes, audit_logs, next_id, started, outside_vars>>

\* lines 339-341
GetJob(c) ==
    /\ At(c, "get_job")
    /\ IF calls[c].resume[1].job_id \in DOMAIN jobs
       THEN Goto(c, "check_existing", <<>>)
       ELSE Raise(c, "ValueError")
    /\ UNCHANGED <<evaluations, resumes, audit_logs, next_id, started, outside_vars>>

\* variant: the stored evaluations are not looked at
CheckExistingSkipped(c) ==
    /\ At(c, "check_existing")
    /\ Goto(c, "download", <<>>)
    /\ UNCHANGED <<evaluations, resumes, audit_logs, next_id, started, outside_vars>>

\* lines 344-350: a stored evaluation of the resume is returned as it is; the
\* query has no order, so existing.data[0] is any of them
CheckExisting(c) ==
    /\ At(c, "check_existing")
    /\ LET existing == EvaluationsOf(evaluations, calls[c].resume_id)
       IN  IF existing # <<>>
           THEN \E i \in DOMAIN existing : Return(c, existing[i])
           ELSE Goto(c, "download", <<>>)
    /\ UNCHANGED <<evaluations, resumes, audit_logs, next_id, started, outside_vars>>

\* lines 353-361: download_resume, extract_text and extract_candidate_name may each
\* raise; a candidate name that differs from the stored one is written to the
\* resumes table
DownloadAndParse(c) ==
    /\ At(c, "download")
    /\ \/ /\ \E exc \in {"DownloadError", "ExtractTextError"} : Raise(c, exc)
          /\ UNCHANGED resumes
       \/ \E name \in CandidateNames :
            /\ Goto(c, "extract_skills", [candidate_name |-> Some(name)])
            /\ resumes' = IF name # calls[c].resume[1].candidate_name
                          THEN [resumes EXCEPT ![calls[c].resume_id].candidate_name = name]
                          ELSE resumes
    /\ UNCHANGED <<evaluations, audit_logs, next_id, started, outside_vars>>

\* line 364
ExtractSkills(c) ==
    /\ At(c, "extract_skills")
    /\ \/ Raise(c, "ValueError")
       \/ \E profile \in SampleProfiles :
              Goto(c, "evaluate_match", [resume_skills |-> Some(profile)])
    /\ UNCHANGED <<evaluations, resumes, audit_logs, next_id, started, outside_vars>>

\* lines 367-372
EvaluateMatch(c) ==
    /\ At(c, "evaluate_match")
    /\ \/ Raise(c, "ValueError")
       \/ \E m \in StoreMatchScores : Goto(c, "save", [match_score |-> Some(m)])
    /\ UNCHANGED <<evaluations, resumes, audit_logs, next_id, started, outside_vars>>

\* lines 375-431, which hold no await: the breakdown is computed and the
\* evaluation inserted (an insert that answers without data raises), then the
\* audit row is written and the inserted row returned
SaveEvaluation(c) ==
    /\ At(c, "save")
    /\ LET job_id == calls[c].resume[1].job_id
           b == RankingBreakdowns[calls[c].resume_id][calls[c].resume_skills[1]]
                                 [calls[c].match_score[1]]
           eval_data == [id |-> next_id, resume_id |-> calls[c].resume_id,
                         job_id |-> job_id, match_score |-> calls[c].match_score[1],
                         experience_years |-> calls[c].resume_skills[1].experience_years,
                         education |-> calls[c].resume_skills[1].education,
                         ranking_breakdown |-> Some(b.val)]
       IN  IF b.exc # "none"
           THEN /\ Raise(c, b.exc)
                /\ UNCHANGED <<evaluations, next_id, audit_logs>>
           ELSE \/ /\ evaluations' = Append(evaluations, eval_data)
                   /\ next_id' = next_id + 1
                   /\ audit_logs' = Append(audit_logs, [entity_type |-> "evaluation",
                                                        entity_id |-> eval_data.id,
                                                        action |-> "created"])
                   /\ Return(c, eval_data)
                \/ /\ Raise(c, "ValueError")
                   /\ UNCHANGED <<evaluations, next_id, audit_logs>>
    /\ UNCHANGED <<resumes, started, outside_vars>>

evaluate_resume(c) ==
    \/ GetResume(c)
    \/ GetJob(c)
    \/ CheckExisting(c)
    \/ DownloadAndParse(c)
    \/ ExtractSkills(c)
    \/ EvaluateMatch(c)
    \/ SaveEvaluation(c)

re_evaluate_resume(c) == DeleteExisting(c)

\* the caller whose calls of evaluate_resume are those of evaluate_all_resumes
BatchCaller == "a"

JobIds == {"JOB-1", "JOB-2", "JOB-3"}

\* no call of evaluate_all_resumes was made
IdleBatch ==
    [pc |-> "idle", job_id |-> "", data |-> <<>>, index |-> 0, results |-> <<>>,
     attempts |-> <<>>]

\* client.table("resumes").select("id").eq("job_id", job_id).execute(): the ids
\* of the resumes of the job, in any order (the query has no order)
ListedResumes(job_id) ==
    LET ids == {r \in DOMAIN resumes : resumes[r].job_id = job_id}
    IN  {s \in [1..Cardinality(ids) -> ids] : \A i, j \in DOMAIN s : i # j => s[i] # s[j]}

\* lines 439-444: the resumes of the job are listed; without any, [] is returned
ListResumes ==
    /\ batch.pc = "idle"
    /\ calls[BatchCaller].pc = "idle"
    /\ \E job_id \in JobIds : \E data \in ListedResumes(job_id) :
          batch' = [IdleBatch EXCEPT !.job_id = job_id, !.data = data,
                                     !.pc = IF data = <<>> THEN "done" ELSE "loop"]
    /\ UNCHANGED <<evaluations, resumes, audit_logs, next_id, calls, started, other_vars>>

\* lines 445-447: the loop takes the next resume and calls evaluate_resume on it
AttemptResume ==
    /\ batch.pc = "loop"
    /\ batch.index < Len(batch.data)
    /\ batch' = [batch EXCEPT !.index = @ + 1, !.pc = "await"]
    /\ calls' = [calls EXCEPT ![BatchCaller] =
                    [IdleCall EXCEPT !.op = "evaluate_resume",
                                     !.resume_id = batch.data[batch.index + 1],
                                     !.since = next_id,
                                     !.previous = EvaluationsOf(evaluations,
                                                      batch.data[batch.index + 1]),
                                     !.pc = "get_resume"]]
    /\ UNCHANGED <<evaluations, resumes, audit_logs, next_id, started, other_vars>>

\* variant: a failure ends the loop
CollectResultOrStop ==
    /\ batch.pc = "await"
    /\ calls[BatchCaller].pc \in {"returned", "raised"}
    /\ batch' = [batch EXCEPT
                    !.results = IF calls[BatchCaller].pc = "returned"
                                THEN Append(@, calls[BatchCaller].result[1]) ELSE @,
                    !.attempts = Append(@, [resume_id |-> calls[BatchCaller].resume_id,
                                            result |-> calls[BatchCaller].result]),
                    !.index = IF calls[BatchCaller].pc = "returned"
                              THEN @ ELSE Len(batch.data),
                    !.pc = "loop"]
    /\ calls' = [calls EXCEPT ![BatchCaller] = IdleCall]
    /\ UNCHANGED <<evaluations, resumes, audit_logs, next_id, started, other_vars>>

\* lines 447-450: the evaluation returned is appended to results; an exception
\* is logged and the loop goes on. `attempts` keeps what every call ended with.
CollectResult ==
    /\ batch.pc = "await"
    /\ calls[BatchCaller].pc \in {"returned", "raised"}
    /\ batch' = [batch EXCEPT
                    !.results = IF calls[BatchCaller].pc = "returned"
                                THEN Append(@, calls[BatchCaller].result[1]) ELSE @,
                    !.attempts = Append(@, [resume_id |-> calls[BatchCaller].resume_id,
                                            result |-> calls[BatchCaller].result]),
                    !.pc = "loop"]
    /\ calls' = [calls EXCEPT ![BatchCaller] = IdleCall]
    /\ UNCHANGED <<evaluations, resumes, audit_logs, next_id, started, other_vars>>

\* line 452: after the last resume the results are returned
ReturnResults ==
    /\ batch.pc = "loop"
    /\ batch.index = Len(batch.data)
    /\ batch' = [batch EXCEPT !.pc = "done"]
    /\ UNCHANGED <<evaluations, resumes, audit_logs, next_id, calls, started, other_vars>>

\* No call was made yet.
InitStore ==
    /\ resumes = StoredResumes
    /\ audit_logs = <<>>
    /\ next_id = 1
    /\ calls = [c \in Callers |-> IdleCall]
    /\ started = 0
    /\ batch = IdleBatch

-----------------------------------------------------------------------------
(* Inputs of calculate_ranking_breakdown                                    *)

\* Years of experience are multiples of 1/YearDen, up to MaxYearSteps of them.
YearDen == 2

MaxYearSteps == 40

\* Longest skill list drawn.
MaxSkills == 2

Years(h) == RNorm(<<h, YearDen>>)

\* resume_skills['experience_years']: absent, or any number of years in range
AllExperienceYears == {None} \cup {Some(Years(h)) : h \in 0..MaxYearSteps}

\* absent, under one year, just above a 5-year requirement, far above it
SampleExperienceYears == {None, Some(Years(1)), Some(Rat(6)), Some(Rat(20))}

\* resume_skills['education']
SampleEducation ==
    {None, Some(""), Some("High School"), Some("PhD in Computer Science"),
     Some("MBA"), Some("Bachelor of Mechanical Engineering")}

\* n skills, alternating a high-value one and an ordinary one
SkillList(n) == [i \in 1..n |-> IF i % 2 = 1 THEN "Python" ELSE "Excel"]

\* resume_skills['skills']
SampleSkills == {None} \cup {Some(SkillList(n)) : n \in 0..MaxSkills}

\* job.description: no requirement; one per experience pattern; a requirement of 0
ExperiencePostings ==
    {"", "Python developer wanted",
     "2+ years experience", "5 years of experience",
     "3-5 years experience", "3 - 10 year experience",
     "Minimum 5 years", "at least 5 years", "At least 12 years",
     "0 years experience"}

SamplePostings ==
    {"", "Python developer wanted",
     "Software engineer, 5+ years of experience, bachelor's degree",
     "Business analyst: at least 5 years. MBA preferred"}

\* resume_text
SampleResumes == {"", "Python developer", "Chef"}

\* match_score of the semantic evaluator
SampleMatchScores == {Rat(0), <<8553, 100>>, Rat(100)}

InitList ==
    /\ evaluations = <<>>
    /\ list_pc = "done"
    /\ filters = None
    /\ delivered = <<>>
    /\ returned = <<>>
    /\ InitStore

\* entry of calculate_ranking_breakdown with the given arguments
InitCall(texts, years, educations, skills, postings, scores) ==
    /\ resume_text \in texts
    /\ resume_skills \in [skills : skills, experience_years : years, education : educations]
    /\ job_description \in postings
    /\ match_score \in scores
    /\ pc = "experience"
    /\ experience_score = None
    /\ education_score = None
    /\ skills_quality_score = None
    /\ keyword_density_score = None
    /\ composite_score = None
    /\ ranking_breakdown = None
    /\ exception = "none"

Init ==
    /\ InitCall(SampleResumes, SampleExperienceYears, SampleEducation, SampleSkills,
                SamplePostings, SampleMatchScores)
    /\ InitList

Next == calculate_ranking_breakdown

Spec == Init /\ [][Next]_vars

\* The experience scorer over every number of years and every kind of requirement.
InitExperience ==
    /\ InitCall({"Python developer"}, AllExperienceYears, {Some("MBA")},
                {Some(SkillList(1))}, ExperiencePostings, {Rat(80)})
    /\ InitList

SpecExperience == InitExperience /\ [][Next]_vars

\* resume_skills['education']: absent, empty, without a degree word (three of
\* them naming a field of study), one text per key of education_hierarchy, and
\* texts that also name a field of study
AllEducation ==
    {None, Some(""), Some("High School"), Some("Computer Science"),
     Some("Business school"), Some("Mechanical Engineering"),
     Some("Bachelor of Business Administration"),
     Some("Master of Data Science and Management"),
     Some("PhD"), Some("Doctorate"), Some("Master of Arts"), Some("M.S. Physics"),
     Some("MBA"), Some("Bachelor of Arts"), Some("B.S. Physics"), Some("B.A. History"),
     Some("Associate degree"), Some("Diploma"), Some("Certificate"),
     Some("PhD in Computer Science"), Some("Bachelor of Mechanical Engineering"),
     Some("Diploma in Civil works")}

\* job.description: no degree requirement, one posting per entry of degree_patterns,
\* and postings with an engineering, a business, a marketing or a generic IT keyword
EducationPostings ==
    {"", "PhD required", "Master's degree required", "MBA preferred",
     "Bachelor's degree required", "Associate's degree", "Diploma required",
     "Certification required", "Bachelor's degree; software engineer",
     "Technical engineering role", "Business analyst", "Marketing role", "IT support"}

\* The education scorer over every spelling of a degree and every required degree.
InitEducation ==
    /\ InitCall({"Python developer"}, {Some(<<3, 1>>)}, AllEducation,
                {Some(SkillList(1))}, EducationPostings, {<<80, 1>>})
    /\ InitList

SpecEducation == InitEducation /\ [][Next]_vars

\* Longest skill list the skills scorer is given.
MaxSkillCount == 11

HighValueNames == <<"Python", "JavaScript", "AWS Lambda", "Docker">>

OrdinaryNames == <<"Excel", "Leadership", "SQL">>

\* n skills of which the first h contain a high-value entry
SkillMix(n, h) ==
    [i \in 1..n |-> IF i <= h THEN HighValueNames[((i - 1) % Len(HighValueNames)) + 1]
                    ELSE OrdinaryNames[((i - 1) % Len(OrdinaryNames)) + 1]]

\* resume_skills['skills']: absent, empty, or any mix of up to MaxSkillCount skills
AllSkillLists ==
    {None} \cup {Some(SkillMix(n, h)) : n \in 0..MaxSkillCount, h \in 0..MaxSkillCount}

\* job.description for the skills scorer
SkillsPostings == {"", "Python developer wanted", "Docker and Excel required"}

\* The skills scorer over every mix of skills.
InitSkills ==
    /\ InitCall({"Python developer"}, {Some(<<3, 1>>)}, {Some("MBA")},
                AllSkillLists, SkillsPostings, {<<80, 1>>})
    /\ InitList

SpecSkills == InitSkills /\ [][Next]_vars

\* A resume of n words: `word` followed by n - 1 words that are no keyword.
RECURSIVE PaddedResume(_, _)
PaddedResume(word, n) == IF n <= 1 THEN word ELSE PaddedResume(word, n - 1) \o " x"

\* resume lengths at and next to the bounds of the density buckets
PaddedLengths == {20, 21, 25, 26, 33, 34, 50, 51, 100, 101}

\* resume_text: without a token, short ones (two of them with the same words in
\* another order and spelling), and one keyword among n words
DensityResumes ==
    {"", "?!", "Chef", "victor", "tango sierra", "Python chef", "CHEF, python!",
     "python developer wanted python", "Wanted: Python-developer (python)"}
    \cup {PaddedResume("python", n) : n \in PaddedLengths}
    \cup {PaddedResume("victor", 25), PaddedResume("tango", 20)}

\* job.description: no token, no keyword, three keywords, and 22 keywords of which
\* the last seen is the most frequent
DensityPostings ==
    {"", "To be or is it", "Python developer wanted",
     "alpha bravo charlie delta echo foxtrot golf hotel india juliet kilo lima mike "
       \o "november oscar papa quebec romeo sierra tango uniform victor and Victor"}

\* The keyword density scorer over resumes of every density bucket.
InitDensity ==
    /\ InitCall(DensityResumes, {Some(<<3, 1>>)}, {Some("MBA")},
                {Some(SkillList(1))}, DensityPostings, {<<80, 1>>})
    /\ InitList

SpecDensity == InitDensity /\ [][Next]_vars

\* one requirement phrase of the posting per entry of exp_patterns, each with
\* another number
RequirementPhrases ==
    <<"5+ years experience", "2-4 years of experience", "minimum 7 years",
      "at least 9 years">>

\* the phrases of the given classes, in the given order, as one text
RECURSIVE JoinPhrases(_)
JoinPhrases(order) ==
    IF order = <<>> THEN ""
    ELSE IF Len(order) = 1 THEN RequirementPhrases[order[1]]
    ELSE JoinPhrases(SubSeq(order, 1, Len(order) - 1)) \o "; "
             \o RequirementPhrases[order[Len(order)]]

\* every choice of classes in every order
PhraseOrders ==
    {order \in UNION {[1..n -> 1..NumExpPatterns] : n \in 0..NumExpPatterns} :
        \A i, j \in DOMAIN order : i # j => order[i] # order[j]}

\* job.description: any of the requirement phrases in any order
RequirementPostings == {JoinPhrases(order) : order \in PhraseOrders}

\* The experience scorer over postings that state several requirements.
InitRequirement ==
    /\ InitCall({"Python developer"}, {Some(Rat(3)), Some(Rat(6))}, {Some("MBA")},
                {Some(SkillList(1))}, RequirementPostings, {Rat(80)})
    /\ InitList

SpecRequirement == InitRequirement /\ [][Next]_vars

\* No call of calculate_ranking_breakdown in progress.
InitIdleEngine ==
    /\ resume_text = ""
    /\ resume_skills = [skills |-> None, experience_years |-> None, education |-> None]
    /\ job_description = ""
    /\ match_score = Rat(0)
    /\ pc = "returned"
    /\ experience_score = None
    /\ education_score = None
    /\ skills_quality_score = None
    /\ keyword_density_score = None
    /\ composite_score = None
    /\ ranking_breakdown = None
    /\ exception = "none"

\* list_evaluations over every table of up to MaxRows rows
InitListing ==
    /\ InitIdleEngine
    /\ evaluations \in UNION {Tables(n) : n \in 0..MaxRows}
    /\ list_pc = "idle"
    /\ filters = None
    /\ delivered = <<>>
    /\ returned = <<>>
    /\ InitStore

NextList == list_evaluations

SpecList == InitListing /\ [][NextList]_vars

\* Calls of evaluate_resume and re_evaluate_resume by concurrent callers.
InitCalls == InitIdleEngine /\ InitList

NextStore ==
    \E c \in Callers :
        \/ \E op \in {"evaluate_resume", "re_evaluate_resume"} : \E r \in ResumeIds :
               Call(c, op, r)
        \/ re_evaluate_resume(c)
        \/ evaluate_resume(c)

SpecStore == InitCalls /\ [][NextStore]_vars

\* A call of evaluate_all_resumes while another caller evaluates and re-evaluates
\* resumes, on a resumes table with two resumes of the stored job.
InitBatch ==
    /\ InitIdleEngine
    /\ evaluations = <<>>
    /\ list_pc = "idle"
    /\ filters = None
    /\ delivered = <<>>
    /\ returned = <<>>
    /\ resumes = BatchResumes
    /\ audit_logs = <<>>
    /\ next_id = 1
    /\ calls = [c \in Callers |-> IdleCall]
    /\ started = 0
    /\ batch = IdleBatch

\* Most calls the other caller makes during a call of evaluate_all_resumes.
MaxOtherCalls == 1

NextBatch ==
    \/ ListResumes
    \/ AttemptResume
    \/ evaluate_resume(BatchCaller)
    \/ CollectResult
    \/ ReturnResults
    \/ \E c \in Callers \ {BatchCaller} :
          \/ \E op \in {"evaluate_resume", "re_evaluate_resume"} : \E r \in ResumeIds :
                 started < MaxOtherCalls /\ Call(c, op, r)
          \/ re_evaluate_resume(c)
          \/ evaluate_resume(c)

SpecBatch == InitBatch /\ [][NextBatch]_vars

-----------------------------------------------------------------------------
(* Properties of calculate_ranking_breakdown                                *)

\* C1: for every baseline match score in [0,100] and every combination of
\* sub-scores, the composite score computed by calculate_ranking_breakdown lies
\* in [0,100].
C1_CompositeInRange ==
    composite_score # None => ValidScore(Round2(composite_score[1]))

\* C2: each of the four sub-scores (experience, education, skills quality,
\* keyword density) returned by its scorer lies in [0,100].
C2_SubScoresInRange ==
    /\ experience_score # None =>
           RLe(Rat(0), experience_score[1]) /\ RLe(experience_score[1], Rat(100))
    /\ education_score # None =>
           RLe(Rat(0), education_score[1]) /\ RLe(education_score[1], Rat(100))
    /\ skills_quality_score # None =>
           RLe(Rat(0), skills_quality_score[1]) /\ RLe(skills_quality_score[1], Rat(100))
    /\ keyword_density_score # None =>
           RLe(Rat(0), keyword_density_score[1]) /\ RLe(keyword_density_score[1], Rat(100))

\* C2 witness: all four scorers have returned, the education score at its cap
\* (PhD, 100, plus a field bonus) and the skills score strictly inside the range.
C2_Witness ==
    /\ pc = "composite"
    /\ education_score = Some(Rat(100))
    /\ resume_skills.education = Some("PhD in Computer Science")
    /\ job_description = "Python developer wanted"
    /\ RLt(Rat(0), skills_quality_score[1])
    /\ RLt(skills_quality_score[1], Rat(100))
    /\ keyword_density_score = Some(Rat(100))

\* C3: calculate_ranking_breakdown returns a RankingBreakdown without raising
\* for every input combination (fields absent, empty or present; any texts;
\* any baseline in [0,100]).
C3_NeverRaises == pc # "raised" /\ exception = "none"

\* The weighted sum of the claim, in exact arithmetic.
C4_Formula(m, e, d, s, k) ==
    LET den == 100 * m[2] * e[2] * d[2] * s[2] * k[2]
        num == 70 * m[1] * e[2] * d[2] * s[2] * k[2]
               + 15 * e[1] * m[2] * d[2] * s[2] * k[2]
               + 10 * d[1] * m[2] * e[2] * s[2] * k[2]
               + 5 * s[1] * m[2] * e[2] * d[2] * k[2]
               + 5 * k[1] * m[2] * e[2] * d[2] * s[2]
    IN  RNorm(<<num, den>>)

\* |a - b| <= 1/200: a is b rounded to the nearest hundredth
C4_NearestHundredth(a, b) ==
    /\ 100 % a[2] = 0
    /\ 200 * Abs(a[1] * b[2] - b[1] * a[2]) <= a[2] * b[2]

\* C4: the composite score equals 0.70*baseline + 0.15*experience +
\* 0.10*education + 0.05*skillsQuality + 0.05*keywordDensity rounded to 2
\* decimals, for every combination of the five inputs, and is a function of
\* those five inputs alone.
C4_CompositeIsWeightedSum ==
    /\ composite_score # None =>
           composite_score[1] = C4_Formula(match_score, experience_score[1],
                                           education_score[1], skills_quality_score[1],
                                           keyword_density_score[1])
    /\ ranking_breakdown # None =>
           LET b == ranking_breakdown[1]
           IN  /\ b.experience_score = experience_score[1]
               /\ b.education_score = education_score[1]
               /\ b.skills_quality_score = skills_quality_score[1]
               /\ b.keyword_density_score = keyword_density_score[1]
               /\ C4_NearestHundredth(b.composite_score,
                                      C4_Formula(match_score, b.experience_score,
                                                 b.education_score, b.skills_quality_score,
                                                 b.keyword_density_score))

\* C4 witness: a breakdown was returned whose composite needed rounding
\* (baseline 85.53 contributes 59.871).
C4_Witness ==
    /\ pc = "returned"
    /\ match_score = <<8553, 100>>
    /\ ranking_breakdown[1].composite_score # composite_score[1]
    /\ RLt(Rat(0), ranking_breakdown[1].experience_score)
    /\ RLt(Rat(0), ranking_breakdown[1].skills_quality_score)

-----------------------------------------------------------------------------
(* Properties of list_evaluations                                           *)

\* The four sort keys of an entry, a missing value read as 0.
SortKeys(x) ==
    << x.match_score,
       IF x.ranking_breakdown = None THEN <<0, 1>> ELSE x.ranking_breakdown[1].composite_score,
       IF x.experience_years = None THEN <<0, 1>> ELSE x.experience_years[1],
       IF x.ranking_breakdown = None THEN <<0, 1>> ELSE x.ranking_breakdown[1].education_score >>

KeysLe(a, b) == a = b \/ LexLt(a, b)

SortedByMatchScore == filters = None \/ filters[1].sort_by = "match_score"

Descending == filters = None \/ filters[1].sort_order = "desc"

Ids(rows) == {rows[i].id : i \in DOMAIN rows}

PositionOf(rows, id) == CHOOSE k \in DOMAIN rows : rows[k].id = id

\* entries equal on all four keys stand in `list` in the order they have in `source`
TiesInOrderOf(list, source) ==
    \A i, j \in DOMAIN list :
        (i < j /\ SortKeys(list[i]) = SortKeys(list[j])) =>
            PositionOf(source, list[i].id) < PositionOf(source, list[j].id)

\* the list the handler returns for filters f when the query delivers rows d
ListFor(d, f) == KeywordFilter(OrderedEvaluations(d, f), f)

\* C5: when list_evaluations sorts by match score the returned list (the
\* delivered rows that pass the keyword filters) is ordered lexicographically by
\* (match score, composite score, experience years, education sub-score), all
\* four descending under desc and when no filters are passed, all four
\* ascending under asc; of two entries with equal match score the one with the
\* higher composite comes first under desc.
C5_LexicographicOrder ==
    (list_pc = "done" /\ SortedByMatchScore) =>
        /\ Ids(returned) = Ids(KeywordFilter(delivered, filters))
        /\ Len(returned) = Cardinality(Ids(returned))
        /\ \A i \in 1..(Len(returned) - 1) :
               IF Descending
               THEN KeysLe(SortKeys(returned[i + 1]), SortKeys(returned[i]))
               ELSE KeysLe(SortKeys(returned[i]), SortKeys(returned[i + 1]))

\* C5 witness: no filters; two entries of equal match score were delivered with
\* the lower composite first and are returned with the higher composite first.
C5_Witness ==
    /\ list_pc = "done"
    /\ filters = None
    /\ Len(returned) >= 2
    /\ returned[1].match_score = returned[2].match_score
    /\ RLt(SortKeys(returned[2])[2], SortKeys(returned[1])[2])
    /\ delivered[1].id = returned[2].id

OppositeFilters ==
    IF filters = None THEN Some([DefaultFilters EXCEPT !.sort_order = "asc"])
    ELSE Some([filters[1] EXCEPT !.sort_order = IF @ = "desc" THEN "asc" ELSE "desc"])

Reverse(list) == [i \in 1..Len(list) |-> list[Len(list) + 1 - i]]

\* C6 as stated: for any collection sorted by match score the list returned
\* for one direction is exactly the reverse of the list returned for the other,
\* entries equal on some or all of the four keys included.
C6_AscIsExactReverse ==
    (list_pc = "done" /\ SortedByMatchScore) =>
        \A d \in QueryResults(evaluations, OppositeFilters) :
            ListFor(d, OppositeFilters) = Reverse(returned)

\* C6 amended: the list for the other direction holds the same entries, and its
\* sequence of key tuples is the reverse of this list's, so entries that differ
\* on some key stand in reversed relative order; entries equal on all four keys
\* are not reversed.
C6_AscReversesKeys ==
    (list_pc = "done" /\ SortedByMatchScore) =>
        \A other \in {ListFor(d, OppositeFilters) :
                          d \in QueryResults(evaluations, OppositeFilters)} :
            /\ Len(other) = Len(returned)
            /\ Ids(other) = Ids(returned)
            /\ \A i \in DOMAIN other :
                   SortKeys(other[i]) = SortKeys(returned[Len(returned) + 1 - i])

\* C6 witness: an asc list of three entries, two of them equal on all four keys
\* and the third different.
C6_Witness ==
    /\ list_pc = "done"
    /\ filters # None
    /\ filters[1].sort_by = "match_score"
    /\ filters[1].sort_order = "asc"
    /\ Len(returned) = 3
    /\ \E i \in 1..2 : SortKeys(returned[i]) = SortKeys(returned[i + 1])
    /\ SortKeys(returned[1]) # SortKeys(returned[3])
    /\ returned # delivered

\* C7 as stated: for the same collection and the same sort request on match
\* score the returned order is the same whatever order the store delivers the
\* rows in.
C7_SameListForAnyDelivery ==
    (list_pc = "done" /\ SortedByMatchScore) =>
        \A d \in QueryResults(evaluations, filters) : ListFor(d, filters) = returned

\* C7 amended: whatever order the store delivers the rows in, the returned list
\* holds the same entries with the same sequence of key tuples, so an entry
\* whose key tuple no other entry shares has the same position; entries equal
\* on all four keys are returned in the order the store delivered them.
C7_SameKeysForAnyDelivery ==
    (list_pc = "done" /\ SortedByMatchScore) =>
        /\ TiesInOrderOf(returned, delivered)
        /\ \A other \in {ListFor(d, filters) : d \in QueryResults(evaluations, filters)} :
               /\ Len(other) = Len(returned)
               /\ Ids(other) = Ids(returned)
               /\ \A i \in DOMAIN other : SortKeys(other[i]) = SortKeys(returned[i])

\* C7 witness: the store could deliver the rows in several orders, and the sort
\* moved a row.
C7_Witness ==
    /\ list_pc = "done"
    /\ SortedByMatchScore
    /\ Cardinality(QueryResults(evaluations, filters)) > 1
    /\ Len(returned) = 3
    /\ returned # delivered
    /\ \E d \in QueryResults(evaluations, filters) : ListFor(d, filters) # returned

HasMissingValue(x) == x.ranking_breakdown = None \/ x.experience_years = None

\* C8: in the match-score sort an entry with no ranking breakdown, composite,
\* experience years or education sub-score is compared as if the value were 0:
\* it ties with an entry whose value is 0 (the two keep their delivered order)
\* and is otherwise placed by its keys with 0 in the missing place; every
\* component of the sort key is a number, so no comparison raises.
C8_MissingComparedAsZero ==
    (list_pc = "done" /\ SortedByMatchScore) =>
        /\ \A i, j \in DOMAIN returned :
               (i < j /\ (HasMissingValue(returned[i]) \/ HasMissingValue(returned[j]))) =>
                   IF SortKeys(returned[i]) = SortKeys(returned[j])
                   THEN PositionOf(delivered, returned[i].id)
                            < PositionOf(delivered, returned[j].id)
                   ELSE IF Descending
                   THEN LexLt(SortKeys(returned[j]), SortKeys(returned[i]))
                   ELSE LexLt(SortKeys(returned[i]), SortKeys(returned[j]))
        /\ \A i \in DOMAIN delivered :
               HasMissingValue(delivered[i]) =>
                   \A k \in 1..4 : TiebreakKey(delivered[i], Descending)[k] \in Int \X Int

\* C8 witness: an entry stored with a composite of 0 was delivered before an
\* entry of the same match score without a breakdown, and is returned before it
\* under desc.
C8_Witness ==
    /\ list_pc = "done"
    /\ SortedByMatchScore
    /\ Descending
    /\ \E i \in 1..(Len(returned) - 1) :
           /\ returned[i].ranking_breakdown # None
           /\ returned[i].ranking_breakdown[1].composite_score = <<0, 1>>
           /\ returned[i + 1].ranking_breakdown = None
           /\ returned[i + 1].match_score = returned[i].match_score
           /\ PositionOf(delivered, returned[i].id) < PositionOf(delivered, returned[i + 1].id)

-----------------------------------------------------------------------------
(* Properties of _calculate_experience_score                                *)

\* Candidate years in the order of the claim: missing below every present value.
C9_YearsLe(a, b) == a = None \/ (b # None /\ RLe(a[1], b[1]))

C9_ScoreOf(years) ==
    _calculate_experience_score([resume_skills EXCEPT !.experience_years = years],
                                job_description)

\* C9: for a fixed posting the experience score is monotonically non-decreasing
\* in the candidate's years of experience, missing experience ordered below
\* every present value.
C9_ExperienceMonotone ==
    pc = "education" =>
        \A other \in AllExperienceYears :
            /\ C9_YearsLe(resume_skills.experience_years, other) =>
                   RLe(experience_score[1], C9_ScoreOf(other))
            /\ C9_YearsLe(other, resume_skills.experience_years) =>
                   RLe(C9_ScoreOf(other), experience_score[1])

\* C9 witness: 4 years against a 5-year requirement scored 70, between the 50 of
\* 3 years and the 80 of 5 years.
C9_Witness ==
    /\ experience_score = Some(Rat(70))
    /\ resume_skills.experience_years = Some(Rat(4))
    /\ job_description = "at least 5 years"
    /\ C9_ScoreOf(Some(Rat(3))) = Rat(50)
    /\ C9_ScoreOf(Some(Rat(5))) = Rat(80)

\* The score table of the claim for c years against a requirement of R years.
C10_Table(c, R) ==
    IF RLe(Rat(R), c)
    THEN LET twice == RNorm(<<2 * (c[1] - R * c[2]), c[2]>>)
             bonus == IF RLe(twice, Rat(20)) THEN twice ELSE Rat(20)
             total == RNorm(<<80 * bonus[2] + bonus[1], bonus[2]>>)
         IN  IF RLe(total, Rat(100)) THEN total ELSE Rat(100)
    ELSE IF 10 * c[1] >= 8 * R * c[2] THEN Rat(70)
    ELSE IF 10 * c[1] >= 6 * R * c[2] THEN Rat(50)
    ELSE IF 10 * c[1] >= 4 * R * c[2] THEN Rat(30)
    ELSE Rat(10)

\* C10 as stated: for every requirement R extracted from the posting (any
\* non-negative integer) and every candidate with c years, the experience score
\* is the table's: 80 + min(2(c-R), 20) capped at 100 when c >= R, else 70, 50,
\* 30 or 10 by the 0.8R, 0.6R and 0.4R thresholds.
C10_TableForEveryRequirement ==
    (/\ experience_score # None
     /\ resume_skills.experience_years # None
     /\ RequiredExp(job_description) # None)
    => experience_score[1] = C10_Table(resume_skills.experience_years[1],
                                       RequiredExp(job_description)[1])

\* C10 amended: the table holds for every extracted requirement R >= 1 and every
\* candidate with c > 0 years; a candidate with 0 years scores 0, and a
\* requirement of 0 is scored as if the posting stated none.
C10_TableForPositiveRequirement ==
    (/\ experience_score # None
     /\ resume_skills.experience_years # None
     /\ RequiredExp(job_description) # None)
    => LET c == resume_skills.experience_years[1]
           R == RequiredExp(job_description)[1]
       IN  /\ (R >= 1 /\ c[1] > 0) => experience_score[1] = C10_Table(c, R)
           /\ c[1] = 0 => experience_score[1] = Rat(0)
           /\ (R = 0 /\ c[1] > 0) =>
                  experience_score[1] =
                      _calculate_experience_score(resume_skills, "")

\* C10 witness: 6 years against "at least 5 years" scored 82.
C10_Witness ==
    /\ experience_score = Some(Rat(82))
    /\ resume_skills.experience_years = Some(Rat(6))
    /\ job_description = "at least 5 years"
    /\ RequiredExp(job_description) = Some(5)

\* The buckets of the claim for c years when the posting states no requirement.
C11_Bucket(c) ==
    IF c[1] >= 10 * c[2] THEN <<100, 1>>
    ELSE IF c[1] >= 5 * c[2] THEN <<85, 1>>
    ELSE IF c[1] >= 3 * c[2] THEN <<70, 1>>
    ELSE IF c[1] >= c[2] THEN <<50, 1>>
    ELSE <<25, 1>>

\* C11: when the posting states no experience requirement a candidate with
\* experience (more than 0 years) is scored by bucket: >= 10y 100, >= 5y 85,
\* >= 3y 70, >= 1y 50, below 1y 25; a candidate with missing experience scores
\* 0 whether or not the posting states a requirement.
C11_BucketsWithoutRequirement ==
    pc = "education" =>
        /\ resume_skills.experience_years = None => experience_score = Some(<<0, 1>>)
        /\ (/\ resume_skills.experience_years # None
            /\ resume_skills.experience_years[1][1] > 0
            /\ RequiredExp(job_description) = None)
           => experience_score = Some(C11_Bucket(resume_skills.experience_years[1]))

\* C11 witness: exactly 1 year against a posting without a requirement scored
\* 50, half a year scores 25, and missing experience scores 0 against
\* "at least 5 years".
C11_Witness ==
    /\ pc = "education"
    /\ resume_skills.experience_years = Some(<<1, 1>>)
    /\ job_description = "Python developer wanted"
    /\ experience_score = Some(<<50, 1>>)
    /\ C9_ScoreOf(Some(<<1, 2>>)) = <<25, 1>>
    /\ _calculate_experience_score([resume_skills EXCEPT !.experience_years = None],
                                   "at least 5 years") = <<0, 1>>

-----------------------------------------------------------------------------
(* Properties of _calculate_education_score                                 *)

\* The seven levels of the degree hierarchy, highest first: doctorate/PhD,
\* master's/MBA, bachelor's (B.S.), bachelor's (B.A.), associate, diploma,
\* certificate; and the score of each.
DegreeLevelScore == <<100, 85, 70, 65, 50, 40, 30>>

\* the level a key of education_hierarchy spells
DegreeLevelOfKey(k) ==
    CASE k \in {1, 2} -> 1
      [] k \in {3, 4, 5} -> 2
      [] k \in {6, 7} -> 3
      [] OTHER -> k - 4

\* the level a posting requires, by the name _extract_required_degree gives it
DegreeLevelRequired(name) ==
    CASE name = "phd" -> 1
      [] name = "master" -> 2
      [] name = "bachelor" -> 3
      [] name = "associate" -> 5
      [] name = "diploma" -> 6
      [] OTHER -> 7

\* the education scorer has returned a score for a candidate whose text names a
\* degree, against a posting that requires one
DegreeCompared ==
    /\ pc \notin {"experience", "education"}
    /\ education_score # None
    /\ resume_skills.education # None
    /\ CandidateLevelIndex(Lower(resume_skills.education[1])) # 0
    /\ _extract_required_degree(job_description) # None

CandidateDegreeLevel ==
    DegreeLevelOfKey(CandidateLevelIndex(Lower(resume_skills.education[1])))

RequiredDegreeLevel == DegreeLevelRequired(_extract_required_degree(job_description)[1])

\* the final education score for a base score: base plus the field bonus, capped at 100
WithFieldBonus(base) ==
    LET bonus == _calculate_field_relevance_bonus(Lower(resume_skills.education[1]),
                                                  job_description).val
        total == <<base * bonus[2] + bonus[1], bonus[2]>>
    IN  IF total[1] <= 100 * total[2] THEN RNorm(total) ELSE <<100, 1>>

Least(a, b) == IF a <= b THEN a ELSE b

\* C12: when the candidate's degree level equals the required level of the
\* posting the education base score is that level's hierarchy score, whichever
\* spelling of the level the candidate's text uses ('doctorate' against a PhD
\* requirement, 'MBA' against a master's requirement); the final score is that
\* base plus the field bonus, capped at 100.
C12_EqualLevelGetsLevelScore ==
    (DegreeCompared /\ CandidateDegreeLevel = RequiredDegreeLevel) =>
        education_score[1] = WithFieldBonus(DegreeLevelScore[RequiredDegreeLevel])

\* C13: when the candidate's degree level is k >= 1 levels above the required
\* level of the seven-level hierarchy the education base score is
\* min(100, requiredLevelScore + min(10k, 20)); one level above (master's against
\* a bachelor's requirement, PhD against a master's) gets the required score + 10.
C13_HigherLevelBonus ==
    (DegreeCompared /\ CandidateDegreeLevel < RequiredDegreeLevel) =>
        education_score[1] =
            WithFieldBonus(Least(100, DegreeLevelScore[RequiredDegreeLevel]
                                      + Least(10 * (RequiredDegreeLevel - CandidateDegreeLevel),
                                              20)))

\* C14: a candidate whose degree level is two or more levels above the required
\* level gets an education base score of the required level's score + 20; 'PhD
\* in Computer Science' against a posting requiring a bachelor's degree and
\* mentioning 'engineer' gets base 90 and final education score 100.
C14_TwoLevelsAboveGetsTwenty ==
    (DegreeCompared /\ CandidateDegreeLevel + 2 <= RequiredDegreeLevel) =>
        education_score[1] = WithFieldBonus(DegreeLevelScore[RequiredDegreeLevel] + 20)

\* C14 witness: 'PhD in Computer Science' against "Bachelor's degree; software
\* engineer" scored 100, and a plain 'PhD' against a bachelor's requirement 90.
C14_Witness ==
    /\ pc = "skills_quality"
    /\ resume_skills.education = Some("PhD in Computer Science")
    /\ job_description = "Bachelor's degree; software engineer"
    /\ education_score = Some(<<100, 1>>)
    /\ _calculate_education_score([resume_skills EXCEPT !.education = Some("PhD")],
                                  "Bachelor's degree required") = Returns(<<90, 1>>)

\* the larger of two integers
Greatest(a, b) == IF a >= b THEN a ELSE b

\* C15: when the candidate's degree level is k >= 1 levels below the required
\* level of the seven-level hierarchy the education base score is
\* max(0, candidateLevelScore - 15k); a bachelor's candidate against a master's
\* requirement gets 70 - 15 = 55.
C15_LowerLevelPenalty ==
    (DegreeCompared /\ CandidateDegreeLevel > RequiredDegreeLevel) =>
        education_score[1] =
            WithFieldBonus(Greatest(0, DegreeLevelScore[CandidateDegreeLevel]
                                       - 15 * (CandidateDegreeLevel - RequiredDegreeLevel)))

\* C16: for a candidate whose education text names an engineering field and no
\* technical or business field the field-relevance bonus is 12 when the posting
\* contains any of the keywords engineer, engineering, technical, each tested on
\* its own against the posting, and 0 otherwise.
C16_EngineeringFieldBonus ==
    (/\ pc \notin {"experience", "education"}
     /\ resume_skills.education # None
     /\ CandidateLevelIndex(Lower(resume_skills.education[1])) # 0
     /\ AnyIn(engineering_fields, Lower(resume_skills.education[1]))
     /\ ~AnyIn(tech_fields, Lower(resume_skills.education[1]))
     /\ ~AnyIn(business_fields, Lower(resume_skills.education[1])))
    => /\ exception = "none"
       /\ _calculate_field_relevance_bonus(Lower(resume_skills.education[1]), job_description)
              = Returns(IF AnyIn({"engineer", "engineering", "technical"},
                                 Lower(job_description))
                        THEN <<12, 1>> ELSE <<0, 1>>)

-----------------------------------------------------------------------------
(* Properties of _calculate_skills_quality_score                            *)

\* min(100, 80 * highValueCount / totalSkillCount + min(2 * totalSkillCount, 20))
C17_Formula(skills) ==
    LET n == Len(skills)
        h == Cardinality({i \in 1..n :
                            \E hv \in high_value_skills : Contains(Lower(skills[i]), hv)})
        bonus == IF 2 * n <= 20 THEN 2 * n ELSE 20
    IN  IF n = 0 THEN <<0, 1>>
        ELSE IF 80 * h + bonus * n <= 100 * n THEN RNorm(<<80 * h + bonus * n, n>>)
        ELSE <<100, 1>>

\* C17: the skills quality score is 0 for an empty (or absent) skill list and
\* otherwise min(100, 80*highValueCount/totalSkillCount + min(2*totalSkillCount, 20)),
\* highValueCount being the number of skills that contain a high-value entry;
\* for every skill list the score is the same for any two posting texts.
C17_SkillsQualityFormula ==
    skills_quality_score # None =>
        /\ skills_quality_score[1] =
               (IF resume_skills.skills = None THEN <<0, 1>>
                ELSE C17_Formula(resume_skills.skills[1]))
        /\ \A jd \in SkillsPostings \cup SamplePostings :
               _calculate_skills_quality_score(resume_skills, jd) = skills_quality_score[1]

\* C17 witness: 11 skills of which 5 are high-value scored 400/11 + 20, the
\* count bonus at its cap.
C17_Witness ==
    /\ pc = "keyword_density"
    /\ resume_skills.skills = Some(SkillMix(11, 5))
    /\ skills_quality_score = Some(<<620, 11>>)
    /\ job_description = "Docker and Excel required"

-----------------------------------------------------------------------------
(* Properties of _calculate_keyword_density_score                           *)

\* the tokens of a text as the scorer reads them
Tokens(text) == FindWords(Lower(text), 1)

\* the occurrences of w among the tokens t
C18_Freq(t, w) == Cardinality({i \in DOMAIN t : t[i] = w})

\* the posting tokens that are no stop words and longer than 2 characters
C18_Keywords(t) == {t[i] : i \in {j \in DOMAIN t : t[j] \notin stop_words /\ Len(t[j]) > 2}}

\* keyword a is more frequent in the posting than b, or as frequent and seen first
C18_Before(t, a, b) ==
    \/ C18_Freq(t, a) > C18_Freq(t, b)
    \/ /\ C18_Freq(t, a) = C18_Freq(t, b)
       /\ SetMin({i \in DOMAIN t : t[i] = a}) < SetMin({i \in DOMAIN t : t[i] = b})

\* the 20 most frequent keywords
C18_Top(t) ==
    {k \in C18_Keywords(t) :
        Cardinality({j \in C18_Keywords(t) : C18_Before(t, j, k)}) < 20}

\* the bucket of m occurrences among n tokens, the density being 1000 * m / n
C18_Bucket(m, n) ==
    IF 1000 * m >= 50 * n THEN <<100, 1>>
    ELSE IF 1000 * m >= 40 * n THEN <<85, 1>>
    ELSE IF 1000 * m >= 30 * n THEN <<70, 1>>
    ELSE IF 1000 * m >= 20 * n THEN <<55, 1>>
    ELSE IF 1000 * m >= 10 * n THEN <<40, 1>>
    ELSE <<25, 1>>

C18_Score(top, r) ==
    IF top = {} \/ Len(r) = 0 THEN <<0, 1>>
    ELSE C18_Bucket(Cardinality({i \in DOMAIN r : r[i] \in top}), Len(r))

\* C18: keywords are the posting tokens that are no stop words and longer than
\* 2 characters, reduced to the 20 most frequent (ties in first-seen order); the
\* keyword density score is 0 if no keyword survives or the resume has no token,
\* and otherwise the bucket of 1000 * (occurrences of those keywords among the
\* resume tokens) / (resume token count): >= 50 -> 100, >= 40 -> 85, >= 30 -> 70,
\* >= 20 -> 55, >= 10 -> 40, else 25.
C18_KeywordDensityFormula ==
    keyword_density_score # None =>
        keyword_density_score[1] =
            C18_Score(C18_Top(Tokens(job_description)), Tokens(resume_text))

\* C18 witness: the posting has 22 keywords and 'tango' is the 21st of them by
\* frequency and first-seen order, so a resume of 20 words with 'tango' once has
\* no occurrence of a top keyword and scored 25.
C18_Witness ==
    /\ pc = "composite"
    /\ resume_text = PaddedResume("tango", 20)
    /\ Cardinality(C18_Keywords(Tokens(job_description))) = 22
    /\ "tango" \in C18_Keywords(Tokens(job_description)) \ C18_Top(Tokens(job_description))
    /\ keyword_density_score = Some(<<25, 1>>)

\* up to this number of words every order of a resume's words is tried
MaxPermutedWords == 4

RECURSIVE JoinWords(_)
JoinWords(words) ==
    IF words = <<>> THEN ""
    ELSE IF Len(words) = 1 THEN words[1]
    ELSE JoinWords(SubSeq(words, 1, Len(words) - 1)) \o " " \o words[Len(words)]

\* texts made of the tokens t in other orders: every order of a short text, and
\* the reverse order of any text
C19_Rearranged(t) ==
    {JoinWords([i \in DOMAIN t |-> t[Len(t) + 1 - i]])}
    \cup (IF Len(t) <= MaxPermutedWords
          THEN {JoinWords([i \in DOMAIN t |-> t[p[i]]]) : p \in Permutations(DOMAIN t)}
          ELSE {})

\* the token multisets of a and b are equal
C19_SameTokens(a, b) ==
    /\ Len(a) = Len(b)
    /\ \A i \in DOMAIN a : C18_Freq(a, a[i]) = C18_Freq(b, a[i])

\* C19: for a fixed posting the keyword density score is the same for any two
\* resume texts with equal token multisets: every permutation of the resume's
\* words, and every other resume made of the same words, gets the score of the
\* resume.
C19_OrderInvariant ==
    keyword_density_score # None =>
        /\ \A r \in C19_Rearranged(Tokens(resume_text)) :
               _calculate_keyword_density_score(r, job_description)
                   = keyword_density_score[1]
        /\ \A r \in DensityResumes :
               C19_SameTokens(Tokens(r), Tokens(resume_text)) =>
                   _calculate_keyword_density_score(r, job_description)
                       = keyword_density_score[1]

\* C19 witness: a resume of four words, two of them the same keyword, scored 100
\* and another resume spells the same words in another order.
C19_Witness ==
    /\ pc = "composite"
    /\ resume_text = "Wanted: Python-developer (python)"
    /\ job_description = "Python developer wanted"
    /\ keyword_density_score = Some(<<100, 1>>)
    /\ \E r \in DensityResumes :
           /\ Tokens(r) # Tokens(resume_text)
           /\ C19_SameTokens(Tokens(r), Tokens(resume_text))

-----------------------------------------------------------------------------
(* Properties of evaluate_resume and re_evaluate_resume                     *)

\* the call of c returns in this step
ReturnsNow(c) == calls[c].pc # "returned" /\ calls'[c].pc = "returned"

\* when re_evaluate_resume(r) returns the store holds one evaluation of r, and
\* that one was inserted after the call was made
C20_OneNewRecordOnReturn ==
    \A c \in Callers :
        (calls[c].op = "re_evaluate_resume" /\ ReturnsNow(c)) =>
            LET rows == EvaluationsOf(evaluations', calls[c].resume_id)
            IN  Len(rows) = 1 /\ rows[1].id >= calls[c].since

\* a step leaves every evaluation that stays in the store as it was, and what
\* it adds has an id no evaluation had before
C20_StoredRowsKept ==
    /\ \A i \in DOMAIN evaluations : \A j \in DOMAIN evaluations' :
           evaluations[i].id = evaluations'[j].id => evaluations[i] = evaluations'[j]
    /\ \A j \in DOMAIN evaluations' :
           (\A i \in DOMAIN evaluations : evaluations[i].id # evaluations'[j].id)
               => evaluations'[j].id >= next_id

\* no step modifies a stored evaluation; evaluate_resume only adds rows with new ids
C20_NoWriteToStoredEvaluation == [][C20_StoredRowsKept]_vars

\* C20: no operation updates a stored evaluation in place: after
\* re_evaluate_resume(r) returns the store holds exactly one evaluation of r and it
\* is a newly inserted one (the previous one was deleted, not modified), and
\* evaluate_resume never writes to an evaluation that already exists.
C20_NoUpdateInPlace == [][C20_OneNewRecordOnReturn /\ C20_StoredRowsKept]_vars

\* the call of c raises in this step
RaisesNow(c) == calls[c].pc # "raised" /\ calls'[c].pc = "raised"

\* C21: a stored evaluation of a resume stays in the store until a new one has
\* replaced it: when re_evaluate_resume fails at any step, every evaluation of
\* the resume that was stored when the call was made is still in the store.
C21_StoredEvaluationKeptOnFailure ==
    [][\A c \in Callers :
          (calls[c].op = "re_evaluate_resume" /\ RaisesNow(c)) =>
              \A i \in DOMAIN calls[c].previous :
                  \E j \in DOMAIN evaluations' : evaluations'[j] = calls[c].previous[i]]_vars

\* C27: after any interleaving of concurrent evaluate_resume and
\* re_evaluate_resume calls for the same resume, each suspended at its awaits,
\* the store holds at most one evaluation of that resume.
C27_AtMostOneEvaluation ==
    \A r \in ResumeIds : Len(EvaluationsOf(evaluations, r)) <= 1

-----------------------------------------------------------------------------
(* Properties of the requirement search of _calculate_experience_score      *)

\* the number stated by the phrase of each class (the upper bound of the range)
C22_PhraseValue == <<5, 4, 7, 9>>

\* the requirement of a posting made of these phrases: the number of the phrase
\* of the first class in priority order, wherever the phrases stand
C22_Requirement(order) ==
    IF order = <<>> THEN None
    ELSE Some(C22_PhraseValue[SetMin({order[i] : i \in DOMAIN order})])

\* C22: the experience requirement is taken from the first pattern class, in the
\* priority order 'N+ years experience', 'N-M years experience', 'minimum N
\* years', 'at least N years', that matches anywhere in the posting, wherever in
\* the text the phrases stand; later classes are not consulted, and a range
\* yields its upper bound M.
C22_FirstClassDecides ==
    experience_score # None =>
        \A order \in PhraseOrders :
            job_description = JoinPhrases(order) =>
                /\ RequiredExp(job_description) = C22_Requirement(order)
                /\ experience_score[1] =
                       (IF order = <<>>
                        THEN GeneralExperienceScore(resume_skills.experience_years[1])
                        ELSE RequirementScore(resume_skills.experience_years[1],
                                              C22_Requirement(order)[1]))

-----------------------------------------------------------------------------
(* Properties of the education scorer without a degree and of the field bonus *)

\* education texts that hold no entry of the degree hierarchy
C23_WithoutDegree ==
    {"High School", "Computer Science", "Business school", "Mechanical Engineering"}

C23_NoDegree(education) ==
    education = None \/ education[1] = "" \/ education[1] \in C23_WithoutDegree

\* C23: the education score is exactly 0 when the candidate has no education
\* string or when no entry of the degree hierarchy matches it, for every posting;
\* no field bonus is added then, even if the text names a relevant field
\* ('computer science' without a degree word).
C23_NoDegreeScoresZero ==
    (pc \notin {"experience", "education"} /\ C23_NoDegree(resume_skills.education)) =>
        /\ education_score = Some(Rat(0))
        /\ exception = "none"
        /\ \A jd \in EducationPostings :
               _calculate_education_score(resume_skills, jd) = Returns(Rat(0))

\* C23 witness: 'Computer Science' without a degree word scored 0 against a posting
\* for a software engineer, which gives a technical field its bonus.
C23_Witness ==
    /\ pc = "skills_quality"
    /\ resume_skills.education = Some("Computer Science")
    /\ job_description = "Bachelor's degree; software engineer"
    /\ education_score = Some(Rat(0))
    /\ _calculate_field_relevance_bonus("computer science", job_description)
           = Returns(Rat(15))

\* the table of the field bonus for an education text and a posting, both in
\* lower case: technical field first, business field only without a technical one
C24_Bonus(education_str, job_desc_lower) ==
    IF AnyIn(tech_fields, education_str)
    THEN IF AnyIn({"software", "technical", "developer", "engineer", "data", "ai",
                   "machine learning"}, job_desc_lower) THEN 15
         ELSE IF AnyIn({"it", "technology", "system"}, job_desc_lower) THEN 10
         ELSE 0
    ELSE IF AnyIn(business_fields, education_str)
    THEN IF AnyIn({"business", "management", "analyst", "strategy"}, job_desc_lower) THEN 12
         ELSE IF AnyIn({"finance", "marketing"}, job_desc_lower) THEN 8
         ELSE 0
    ELSE 0

\* a degree was found and the text names a technical field, a business field or
\* no field family at all
C24_Covered(education) ==
    /\ education # None
    /\ CandidateLevelIndex(Lower(education[1])) # 0
    /\ \/ AnyIn(tech_fields, Lower(education[1]))
       \/ AnyIn(business_fields, Lower(education[1]))
       \/ ~AnyIn(engineering_fields, Lower(education[1]))

\* the base score of lines 151-155: the degree match score when the posting
\* requires a degree, the hierarchy score of the matched key otherwise
C24_Base(education, jd) ==
    LET idx == CandidateLevelIndex(Lower(education[1]))
        required_degree == _extract_required_degree(jd)
    IN  IF required_degree # None
        THEN _calculate_degree_match_score(education_hierarchy[idx].level, required_degree[1])
        ELSE Rat(education_hierarchy[idx].score)

\* C24: for a candidate whose education names a technical or a business field
\* the field bonus follows the table (technical field: 15 with a technical
\* keyword in the posting, else 10 with a generic IT keyword, else 0; business
\* field without a technical field: 12 with a core-business keyword, else 8
\* with a finance/marketing keyword, else 0); a candidate with no field family
\* gets 0; the bonus is one of 0, 8, 10, 12, 15 and the final education score
\* is min(100, base + bonus).
C24_FieldBonusTable ==
    (pc \notin {"experience", "education"} /\ C24_Covered(resume_skills.education)) =>
        LET education_str == Lower(resume_skills.education[1])
            bonus == C24_Bonus(education_str, Lower(job_description))
        IN  /\ exception = "none"
            /\ _calculate_field_relevance_bonus(education_str, job_description)
                   = Returns(Rat(bonus))
            /\ bonus \in {0, 8, 10, 12, 15}
            /\ education_score
                   = Some(RMin(Rat(100),
                               RAdd(C24_Base(resume_skills.education, job_description),
                                    Rat(bonus))))

\* C24 witness: a master of data science and management against an IT support
\* posting: the technical field decides, the generic IT keyword gives 10, and
\* the score is 85 + 10.
C24_Witness ==
    /\ pc = "skills_quality"
    /\ resume_skills.education = Some("Master of Data Science and Management")
    /\ job_description = "IT support"
    /\ education_score = Some(Rat(95))

-----------------------------------------------------------------------------
(* Properties of the keyword filters and of the other sort fields           *)

\* position of the entry with this id in a list of entries (0 when absent)
C25_Position(rows, id) ==
    IF \E i \in DOMAIN rows : rows[i].id = id
    THEN CHOOSE i \in DOMAIN rows : rows[i].id = id
    ELSE 0

\* `part` holds entries of `whole`, each once, in the order they have in `whole`
C25_Subsequence(part, whole) ==
    /\ \A i \in DOMAIN part :
          /\ C25_Position(whole, part[i].id) # 0
          /\ whole[C25_Position(whole, part[i].id)] = part[i]
    /\ \A i, j \in DOMAIN part :
          i < j => C25_Position(whole, part[i].id) < C25_Position(whole, part[j].id)

C25_KeywordGiven ==
    /\ filters # None
    /\ filters[1].skills_keyword # None \/ filters[1].education_keyword # None

\* C25: the skills-keyword and education-keyword filters of list_evaluations
\* never change the relative order of the entries that remain: the returned
\* list is a subsequence of the sorted list, so entries tied on the sort keys
\* keep their relative order.
C25_FilterKeepsOrder ==
    (list_pc = "done" /\ C25_KeywordGiven) =>
        C25_Subsequence(returned, OrderedEvaluations(delivered, filters))

\* C25 witness: a keyword filter dropped an entry and kept two entries that are
\* tied on every sort key, the one with the larger id first in the sorted list.
C25_Witness ==
    /\ list_pc = "done"
    /\ C25_KeywordGiven
    /\ Len(returned) < Len(delivered)
    /\ \E i, j \in DOMAIN returned :
          /\ i < j
          /\ returned[i].id > returned[j].id
          /\ TiebreakKey(returned[i], OrderDesc(filters))
                 = TiebreakKey(returned[j], OrderDesc(filters))

C26_OtherField ==
    /\ list_pc = "done"
    /\ filters # None
    /\ filters[1].sort_by # "match_score"

-----------------------------------------------------------------------------
(* Properties of evaluate_resume on an evaluated resume                     *)

\* the call of c takes a step before its download
C28_EarlyStep(c) ==
    /\ calls[c].pc \in {"get_resume", "get_job", "check_existing"}
    /\ calls'[c] # calls[c]

\* C28: evaluate_resume is idempotent on an evaluated resume: when an evaluation
\* of the resume is stored as the call looks for one, the call returns a stored
\* record of that resume and goes on to no download, no skill extraction and no
\* semantic evaluation, and up to that point the call writes nothing to the
\* resumes, evaluations or audit tables, so repeated calls leave the store
\* unchanged.
C28_Idempotent ==
    [][\A c \in Callers :
          C28_EarlyStep(c) =>
              /\ resumes' = resumes
              /\ evaluations' = evaluations
              /\ audit_logs' = audit_logs
              /\ next_id' = next_id
              /\ (At(c, "check_existing")
                    /\ EvaluationsOf(evaluations, calls[c].resume_id) # <<>>) =>
                     /\ calls'[c].pc = "returned"
                     /\ calls'[c].result # None
                     /\ calls'[c].result[1].resume_id = calls[c].resume_id
                     /\ \E i \in DOMAIN evaluations : evaluations[i] = calls'[c].result[1]]_vars

\* C28 witness: both callers evaluated the same resume one after the other, the
\* second call returned the record the first one stored, and the store holds
\* that one evaluation and one audit row.
C28_Witness ==
    /\ \A c \in Callers :
          /\ calls[c].op = "evaluate_resume"
          /\ calls[c].pc = "returned"
          /\ calls[c].result[1].id = 1
    /\ \E c \in Callers : calls[c].previous # <<>> /\ calls[c].result[1] = calls[c].previous[1]
    /\ Len(evaluations) = 1
    /\ Len(audit_logs) = 1

-----------------------------------------------------------------------------
(* Properties of the experience scorer for 0 years                          *)

C30_ZeroYears ==
    /\ resume_skills.experience_years # None
    /\ resume_skills.experience_years[1][1] = 0

\* C30: a candidate whose experience_years is present and equal to 0 is scored
\* exactly like a candidate with missing experience: the experience score is 0
\* for every posting, not the lowest bucket (25 without a requirement, 10 with
\* one).
C30_ZeroYearsScoredAsMissing ==
    (pc = "education" /\ C30_ZeroYears) =>
        /\ experience_score = Some(Rat(0))
        /\ \A jd \in ExperiencePostings :
              /\ _calculate_experience_score(resume_skills, jd) = Rat(0)
              /\ _calculate_experience_score([resume_skills EXCEPT !.experience_years = None],
                                             jd) = Rat(0)

\* C30 witness: 0 years scored 0 against a posting that requires 5 years, where
\* half a year gets the lowest bucket, 10, and against no requirement 25.
C30_Witness ==
    /\ pc = "education"
    /\ C30_ZeroYears
    /\ job_description = "at least 5 years"
    /\ experience_score = Some(Rat(0))
    /\ C9_ScoreOf(Some(Years(1))) = Rat(10)
    /\ _calculate_experience_score([resume_skills EXCEPT !.experience_years = Some(Years(1))],
                                   "") = Rat(25)

-----------------------------------------------------------------------------
(* Properties of evaluate_all_resumes                                       *)

\* the evaluations the calls that returned ended with, in the order of the calls
RECURSIVE C29_Succeeded(_)
C29_Succeeded(attempts) ==
    IF attempts = <<>> THEN <<>>
    ELSE LET rest == C29_Succeeded(SubSeq(attempts, 1, Len(attempts) - 1))
             last == attempts[Len(attempts)]
         IN  IF last.result # None THEN Append(rest, last.result[1]) ELSE rest

\* C29: evaluate_all_resumes attempts every resume of the job exactly once, in
\* the order the store lists them; a failure while evaluating one resume does
\* not stop the evaluation of the remaining ones, and the returned list holds
\* exactly the evaluations of the resumes that succeeded, in that order.
C29_EveryResumeAttemptedOnce ==
    batch.pc = "done" =>
        /\ [i \in DOMAIN batch.attempts |-> batch.attempts[i].resume_id] = batch.data
        /\ \A r \in DOMAIN resumes :
              resumes[r].job_id = batch.job_id =>
                  Cardinality({i \in DOMAIN batch.attempts :
                                 batch.attempts[i].resume_id = r}) = 1
        /\ batch.results = C29_Succeeded(batch.attempts)
        /\ \A i \in DOMAIN batch.results :
              \E k \in DOMAIN batch.data :
                 /\ batch.results[i].resume_id = batch.data[k]
                 /\ batch.attempts[k].result = Some(batch.results[i])

\* C29 witness: of the two resumes of the job the first one failed and the
\* second one was evaluated; the list returned holds the evaluation of the second.
C29_Witness ==
    /\ batch.pc = "done"
    /\ Len(batch.data) = 2
    /\ batch.attempts[1].result = None
    /\ Len(batch.results) = 1
    /\ batch.results[1].resume_id = batch.data[2]

====
